---- MODULE Spec2Model ----
(***************************************************************************)
(* Model of prompt_governor: the three file-backed collections (prompts,   *)
(* configs, runs) with their denormalised index files, the REST handlers   *)
(* that mutate them, and the run executor (execute_run) with the points at *)
(* which it reads and writes the run record.                               *)
(*                                                                         *)
(* Identifiers.  A UUID is a number u.  It has two string forms:           *)
(* Hex(u), the 32 character form produced by uuid4().hex, and Dashed(u),   *)
(* the 36 character form produced by str(UUID) and by pydantic's JSON      *)
(* serialisation of a UUID field.  File names and the "id" field of a      *)
(* stored record are strings, so they carry the form.                      *)
(*                                                                         *)
(* Time.  datetime.utcnow() reads the variable now; 0 stands for None in   *)
(* an optional timestamp.  One unit of the clock is half a second: an odd  *)
(* value is a whole second (microsecond = 0), the even value after it a    *)
(* later instant of the same second.                                       *)
(***************************************************************************)
EXTENDS Integers, Sequences, FiniteSets, TLC

\* ---- bounds -------------------------------------------------------------
MaxPrompts == 2    \* prompt ids that generate_id() hands out
MaxConfigs == 1    \* config ids that are handed out
MaxRuns == 1       \* run ids that generate_id()/uuid4() hand out
MaxTime == 2       \* clock values
MaxCalls == 1      \* concurrent invocations of execute_run
MaxNames == 2      \* entity names, ordered as the strings they stand for

\* completed_at = None
NoTime == 0

\* metrics = None: a run's metrics are modelled by the keys of the dict
NoMetrics == {}

\* uuid4() never repeats an id; each collection numbers its own
PromptUuids == 1..MaxPrompts
ConfigUuids == 1..MaxConfigs
RunUuids == 1..MaxRuns
Names == 1..MaxNames
Calls == 1..MaxCalls

Hex(u) == <<"hex", u>>
Dashed(u) == <<"dashed", u>>

\* parent_id = None
NoParent == <<"none", 0>>

\* the path parameter "index": {id}.json is then the collection's index.json
IndexName == <<"index", 0>>
PromptIds == {Hex(u) : u \in PromptUuids}
ConfigIds == {Hex(u) : u \in ConfigUuids}
RunIds == {Hex(u) : u \in RunUuids} \cup {Dashed(u) : u \in RunUuids}

\* uuid.UUID(s) / pydantic's UUID parsing: both string forms give the UUID
ParseUuid(s) == s[2]

COLLECTIONS == {"prompts", "configs", "runs"}

Terminal == {"completed", "failed"}

\* ---- file helpers ---------------------------------------------------------
\* save_json: create or overwrite one file of a directory
WriteFile(dir, name, rec) ==
  [n \in (DOMAIN dir) \cup {name} |-> IF n = name THEN rec ELSE dir[n]]

\* Path.unlink
Unlink(dir, name) == [n \in (DOMAIN dir) \ {name} |-> dir[n]]

\* position at which list.sort puts an element: behind every element that
\* does not sort strictly after it (Python's sort is stable, also with
\* reverse=True)
RECURSIVE InsertStable(_, _, _, _)
InsertStable(sorted, e, key, desc) ==
  IF sorted = <<>> THEN <<e>>
  ELSE IF (IF desc THEN Head(sorted)[key] >= e[key]
                   ELSE Head(sorted)[key] <= e[key])
       THEN <<Head(sorted)>> \o InsertStable(Tail(sorted), e, key, desc)
       ELSE <<e>> \o sorted

RECURSIVE SortFrom(_, _, _, _)
SortFrom(done, rest, key, desc) ==
  IF rest = <<>> THEN done
  ELSE SortFrom(InsertStable(done, Head(rest), key, desc), Tail(rest), key, desc)

\* items.sort(key=lambda x: x.get(key), reverse=desc)
SortItems(items, key, desc) == SortFrom(<<>>, items, key, desc)

\* [item for item in items if item.get("id") != id]
WithoutId(items, id) == SelectSeq(items, LAMBDA it : it.id # id)

\* index of the first item with this id, 0 when there is none
FirstIdx(items, id) ==
  IF \E i \in 1..Len(items) : items[i].id = id
  THEN CHOOSE i \in 1..Len(items) :
         /\ items[i].id = id
         /\ \A j \in 1..(i - 1) : items[j].id # id
  ELSE 0

IndexIds(items) == {items[i].id : i \in 1..Len(items)}

VARIABLES
  call,         \* the metrics function called directly, and what it returned
  now,          \* the clock read by datetime.utcnow()
  nextId,       \* per collection: number of ids handed out so far
  promptFiles,  \* data/prompts/{name}.json
  promptIndex,  \* data/prompts/index.json, the "items" list
  configFiles,  \* data/configs/{name}.json
  configIndex,  \* data/configs/index.json
  runFiles,     \* data/runs/{name}.json
  runIndex,     \* data/runs/index.json
  indexExists,  \* per collection: whether its index.json is on disk
  cache,        \* utils.cache._cache: namespace -> key -> entry
  tasks,        \* background tasks scheduled by POST /api/runs, not started
  response,     \* the answer to the last HTTP request
  pc,           \* per invocation of execute_run: where it is
  args,         \* per invocation: the arguments it was called with
  run,          \* per invocation: the Run object it works on
  result,       \* per invocation: what it returned or raised
  saved,        \* per invocation: the statuses it has persisted, in order
  loads,        \* per invocation: how its four resource loads went
  extraction    \* per invocation: how steps 3 to 6 ended

vars == <<call, now, nextId, promptFiles, promptIndex, configFiles, configIndex,
          runFiles, runIndex, indexExists, cache, tasks, response, pc, args,
          run, result, saved, loads, extraction>>

storeVars == <<promptFiles, promptIndex, configFiles, configIndex,
               runFiles, runIndex, indexExists>>
execVars == <<pc, args, run, result, saved, loads, extraction>>

EmptyDir == [n \in {} |-> 0]

NoRun == [id |-> 0, prompt_id |-> 0, config_id |-> 0, status |-> "none",
          started_at |-> NoTime, completed_at |-> NoTime, output |-> "None",
          metrics |-> NoMetrics, cost_usd |-> "None", tokens |-> "None"]

NoArgs == [run_id |-> <<"none", 0>>, prompt_id |-> <<"none", 0>>,
           config_id |-> <<"none", 0>>]

NoLoads == <<0, "none">>

NoResponse == [req |-> "none", code |-> 0, id |-> <<"none", 0>>]

\* no function of the metrics service is called directly
NoCall == [fn |-> "none"]

\* the data directory and the executor as they start
Started ==
  /\ now = 1
  /\ nextId = [k \in COLLECTIONS |-> 0]
  /\ promptFiles = EmptyDir
  /\ promptIndex = <<>>
  /\ configFiles = EmptyDir
  /\ configIndex = <<>>
  /\ runFiles = EmptyDir
  /\ runIndex = <<>>
  /\ indexExists = [k \in COLLECTIONS |-> FALSE]
  /\ cache = EmptyDir
  /\ tasks = {}
  /\ response = NoResponse
  /\ pc = [c \in Calls |-> "idle"]
  /\ args = [c \in Calls |-> NoArgs]
  /\ run = [c \in Calls |-> NoRun]
  /\ result = [c \in Calls |-> "none"]
  /\ saved = [c \in Calls |-> <<>>]
  /\ loads = [c \in Calls |-> NoLoads]
  /\ extraction = [c \in Calls |-> "none"]

Init == Started /\ call = NoCall

\* the clock advances between any two steps
Tick ==
  /\ now < MaxTime
  /\ now' = now + 1
  /\ UNCHANGED <<call, nextId, storeVars, cache, tasks, response, execVars>>

\* ---- timestamps and the list cache ----------------------------------------
\* created_at.isoformat() + "Z" as a string, given by its rank in string
\* order.  isoformat() leaves the fraction out when microsecond = 0, and
\* "." sorts before "Z": within one second the whole second (odd) is the
\* greater string, the later instant (even) the smaller one.
IsoFormat(t) == IF t % 2 = 1 THEN t + 1 ELSE t - 1

\* datetime.fromisoformat(s.replace("Z", "+00:00"))
FromIsoFormat(s) == IF s % 2 = 0 THEN s - 1 ELSE s + 1

\* time.time(), in whole seconds
Seconds(t) == (t + 1) \div 2

\* CacheConfig: time to live of a cached list, in seconds
PROMPT_LIST_TTL == 60
CONFIG_LIST_TTL == 300

\* the entries of one namespace: _cache.get(namespace, {})
Namespace(c, namespace) ==
  IF namespace \in DOMAIN c THEN c[namespace] ELSE EmptyDir

\* get_cached: <<value>>, or <<>> for None when there is no entry or it
\* has expired
GetCached(c, key, namespace) ==
  LET ns == Namespace(c, namespace)
  IN IF key \notin DOMAIN ns THEN <<>>
     ELSE IF ns[key].expires_at < Seconds(now) THEN <<>>
     ELSE <<ns[key].value>>

\* get_cached without the removal of the entry found expired
CacheAfterGetKept(c, key, namespace) == c

\* get_cached removes the entry it finds expired
CacheAfterGet(c, key, namespace) ==
  LET ns == Namespace(c, namespace)
  IN IF key \in DOMAIN ns /\ ns[key].expires_at < Seconds(now)
     THEN WriteFile(c, namespace, Unlink(ns, key))
     ELSE c

\* set_cached
SetCached(c, key, value, ttl, namespace) ==
  WriteFile(c, namespace,
            WriteFile(Namespace(c, namespace), key,
                      [value |-> value, expires_at |-> Seconds(now) + ttl]))

\* invalidate_cache: one key only
InvalidateCache(c, namespace) ==
  IF namespace \in DOMAIN c /\ DOMAIN c[namespace] # {}
  THEN WriteFile(c, namespace,
                 Unlink(c[namespace], CHOOSE k \in DOMAIN c[namespace] : TRUE))
  ELSE c

\* invalidate_namespace: _cache.pop(namespace, None)
InvalidateNamespace(c, namespace) == Unlink(c, namespace)

\* the pages and page sizes that list requests ask for
Pages == {1, 2}
PageSizes == {1}

\* pagination of a list endpoint: total, total_pages, the page clamped to
\* the last one, and the slice of the items
Paginate(items, page, page_size) ==
  LET total == Len(items)
      total_pages ==
        IF total > 0 THEN (total + page_size - 1) \div page_size ELSE 1
      pg == IF page > total_pages
            THEN (IF total_pages > 1 THEN total_pages ELSE 1)
            ELSE page
      start_idx == (pg - 1) * page_size
      end_idx == IF start_idx + page_size < total
                 THEN start_idx + page_size ELSE total
  IN [items |-> SubSeq(items, start_idx + 1, end_idx), total |-> total,
      page |-> pg, page_size |-> page_size, total_pages |-> total_pages]

\* ---- prompts (src/mvp/api/prompts.py) ---------------------------------------

\* whether {prompt_id}.json is a file of the collection's directory
FileExists(files, collection, id) ==
  \/ id \in DOMAIN files
  \/ id = IndexName /\ indexExists[collection]

\* an "add" written from an index read before the other writers wrote: the
\* last writer's entry is the only one
UpdateIndexForPromptLastWriter(items, prompt_data, operation) ==
  LET metadata == [id |-> prompt_data.id, name |-> prompt_data.name,
                   description |-> prompt_data.description,
                   created_at |-> prompt_data.created_at,
                   parent_id |-> prompt_data.parent_id]
      changed ==
        IF operation = "add" THEN <<metadata>>
        ELSE WithoutId(items, prompt_data.id)
  IN SortItems(changed, "created_at", TRUE)

\* _update_index_for_prompt: replace or append on "add", filter on "remove",
\* then sort by the created_at strings, greatest first
UpdateIndexForPrompt(items, prompt_data, operation) ==
  LET existing_idx == FirstIdx(items, prompt_data.id)
      metadata == [id |-> prompt_data.id, name |-> prompt_data.name,
                   description |-> prompt_data.description,
                   created_at |-> prompt_data.created_at,
                   parent_id |-> prompt_data.parent_id]
      changed ==
        IF operation = "add"
        THEN IF existing_idx # 0
             THEN [items EXCEPT ![existing_idx] = metadata]
             ELSE Append(items, metadata)
        ELSE WithoutId(items, prompt_data.id)
  IN SortItems(changed, "created_at", TRUE)

\* _prompt_data_to_metadata: created_at parsed into a datetime
PromptDataToMetadata(item) ==
  [item EXCEPT !.created_at = FromIsoFormat(@)]

\* the body of list_prompts behind the cache
PromptListResult(items, page, page_size) ==
  LET p == Paginate(items, page, page_size)
  IN [p EXCEPT !.items =
        [i \in 1..Len(p.items) |-> PromptDataToMetadata(p.items[i])]]

\* GET /api/prompts?page=..&page_size=..  The handlers are coroutines of one
\* event loop and none of them is suspended between its cache lookup, its
\* reads and writes of the files and its cache update (the cache lock is
\* never held across an await), so a handler is one step.
ListPrompts(page, page_size) ==
  LET cache_key == <<page, page_size>>
      cached == GetCached(cache, cache_key, "prompts")
      looked == CacheAfterGet(cache, cache_key, "prompts")
      fresh == PromptListResult(promptIndex, page, page_size)
  IN
  /\ IF cached # <<>>
     THEN /\ response' = [req |-> "list_prompts", code |-> 200,
                          id |-> <<"none", 0>>,
                          key |-> cache_key, body |-> cached[1]]
          /\ cache' = looked
     ELSE /\ response' = [req |-> "list_prompts", code |-> 200,
                          id |-> <<"none", 0>>,
                          key |-> cache_key, body |-> fresh]
          /\ cache' = SetCached(looked, cache_key, fresh, PROMPT_LIST_TTL,
                                "prompts")
  /\ UNCHANGED <<call, now, nextId, storeVars, tasks, execVars>>

\* GET /api/prompts/{prompt_id}: the index file read as a prompt does not
\* validate as a PromptVersion
GetPrompt(prompt_id) ==
  IF ~FileExists(promptFiles, "prompts", prompt_id)
  THEN [req |-> "get_prompt", code |-> 404, id |-> prompt_id]
  ELSE IF prompt_id = IndexName
  THEN [req |-> "get_prompt", code |-> 500, id |-> prompt_id]
  ELSE [req |-> "get_prompt", code |-> 200, id |-> prompt_id,
        body |-> promptFiles[prompt_id]]

GetPromptRequest(prompt_id) ==
  /\ response' = GetPrompt(prompt_id)
  /\ UNCHANGED <<call, now, nextId, storeVars, cache, tasks, execVars>>

\* POST /api/prompts; description is None (0) or a text, parent_id is None
\* (NoParent) or an id
CreatePrompt(name, description, parent_id) ==
  /\ nextId["prompts"] < MaxPrompts
  /\ LET prompt_id == Hex(nextId["prompts"] + 1)
         prompt_data == [id |-> prompt_id, name |-> name,
                         description |-> description,
                         created_at |-> IsoFormat(now),
                         parent_id |-> parent_id]
     IN /\ promptFiles' = WriteFile(promptFiles, prompt_id, prompt_data)
        /\ promptIndex' = UpdateIndexForPrompt(promptIndex, prompt_data, "add")
        /\ response' = [req |-> "create_prompt", code |-> 201,
                        id |-> prompt_id, body |-> prompt_data]
  /\ indexExists' = [indexExists EXCEPT !["prompts"] = TRUE]
  /\ cache' = InvalidateNamespace(cache, "prompts")
  /\ nextId' = [nextId EXCEPT !["prompts"] = @ + 1]
  /\ UNCHANGED <<call, now, configFiles, configIndex, runFiles, runIndex, tasks,
                 execVars>>

\* a prompt file put into data/prompts by hand, as the executor tests do
SeedPrompt(name) ==
  /\ nextId["prompts"] < MaxPrompts
  /\ LET prompt_id == Hex(nextId["prompts"] + 1)
     IN promptFiles' = WriteFile(promptFiles, prompt_id,
                         [id |-> prompt_id, name |-> name, description |-> 0,
                          created_at |-> IsoFormat(now),
                          parent_id |-> NoParent])
  /\ nextId' = [nextId EXCEPT !["prompts"] = @ + 1]
  /\ UNCHANGED <<call, now, promptIndex, configFiles, configIndex, runFiles,
                 runIndex, indexExists, cache, tasks, response, execVars>>

\* an update that also takes parent_id from the request
UpdatedPromptReparented(old, name, description) ==
  [old EXCEPT !.name = IF name # 0 THEN name ELSE @,
              !.description = IF description # 0 THEN description ELSE @,
              !.parent_id = NoParent]

\* update_prompt, lines 443-451: a field is replaced when the request
\* gives it (0 is None: the field left out)
UpdatedPrompt(old, name, description) ==
  [old EXCEPT !.name = IF name # 0 THEN name ELSE @,
              !.description = IF description # 0 THEN description ELSE @]

\* PUT /api/prompts/{prompt_id}.  With "index" as the id the index file is
\* loaded as the prompt and written back with its items as they were; the
\* index update then fails on prompt_data["id"].
UpdatePrompt(prompt_id, name, description) ==
  /\ IF ~FileExists(promptFiles, "prompts", prompt_id)
     THEN /\ response' = [req |-> "update_prompt", code |-> 404,
                          id |-> prompt_id]
          /\ UNCHANGED <<promptFiles, promptIndex, cache>>
     ELSE IF prompt_id = IndexName
     THEN /\ response' = [req |-> "update_prompt", code |-> 500,
                          id |-> prompt_id]
          /\ UNCHANGED <<promptFiles, promptIndex, cache>>
     ELSE LET prompt_data ==
                UpdatedPrompt(promptFiles[prompt_id], name, description)
          IN /\ promptFiles' = WriteFile(promptFiles, prompt_id, prompt_data)
             /\ promptIndex' =
                  UpdateIndexForPrompt(promptIndex, prompt_data, "add")
             /\ cache' = InvalidateNamespace(cache, "prompts")
             /\ response' = [req |-> "update_prompt", code |-> 200,
                             id |-> prompt_id, body |-> prompt_data,
                             given |-> [name |-> name,
                                        description |-> description]]
  /\ UNCHANGED <<call, now, nextId, configFiles, configIndex, runFiles, runIndex,
                 indexExists, tasks, execVars>>

\* a delete that also removes the runs that used the prompt
DeletePromptCascade(prompt_id) ==
  /\ prompt_id \in DOMAIN promptFiles
  /\ promptFiles' = Unlink(promptFiles, prompt_id)
  /\ promptIndex' =
       UpdateIndexForPrompt(promptIndex, promptFiles[prompt_id], "remove")
  /\ cache' = InvalidateNamespace(cache, "prompts")
  /\ response' = [req |-> "delete_prompt", code |-> 204, id |-> prompt_id]
  /\ runFiles' =
       [n \in {m \in DOMAIN runFiles :
                 ParseUuid(runFiles[m].prompt_id) # ParseUuid(prompt_id)}
          |-> runFiles[n]]
  /\ UNCHANGED <<call, now, nextId, configFiles, configIndex, runIndex,
                 indexExists, tasks, execVars>>

\* DELETE /api/prompts/{prompt_id}.  With "index" as the id the file that is
\* unlinked is index.json; _update_index_for_prompt then loads the empty
\* default index and saves it.
DeletePrompt(prompt_id) ==
  /\ IF ~FileExists(promptFiles, "prompts", prompt_id)
     THEN /\ response' = [req |-> "delete_prompt", code |-> 404,
                          id |-> prompt_id]
          /\ UNCHANGED <<promptFiles, promptIndex, cache>>
     ELSE IF prompt_id = IndexName
     THEN /\ promptIndex' = SortItems(<<>>, "created_at", TRUE)
          /\ cache' = InvalidateNamespace(cache, "prompts")
          /\ response' = [req |-> "delete_prompt", code |-> 204,
                          id |-> prompt_id]
          /\ UNCHANGED promptFiles
     ELSE LET prompt_data == promptFiles[prompt_id]
          IN /\ promptFiles' = Unlink(promptFiles, prompt_id)
             /\ promptIndex' =
                  UpdateIndexForPrompt(promptIndex, prompt_data, "remove")
             /\ cache' = InvalidateNamespace(cache, "prompts")
             /\ response' = [req |-> "delete_prompt", code |-> 204,
                             id |-> prompt_id]
  /\ UNCHANGED <<call, now, nextId, configFiles, configIndex, runFiles, runIndex,
                 indexExists, tasks, execVars>>

\* ---- configs (src/mvp/api/configs.py) ---------------------------------------

\* pydantic validation of a field declared str: a str is taken as it is,
\* any other object (here a uuid.UUID) is rejected
StrField(v) == IF v[1] \in {"hex", "dashed"} THEN "ok" ELSE "ValidationError"

\* UUID(generate_id()): a uuid.UUID object
UuidObject(u) == <<"UUID", u>>

\* _update_index: drop the entry of this id, append the new one, sort by name
UpdateIndex(items, config) ==
  LET metadata == [id |-> config.id, name |-> config.name,
                   model_id |-> config.model_id,
                   created_at |-> config.created_at]
  IN SortItems(Append(WithoutId(items, config.id), metadata), "name", FALSE)

\* _remove_from_index
RemoveFromIndex(items, config_id) == WithoutId(items, config_id)

\* _load_config: 404 when the file is not there, 500 when it does not
\* validate as a ModelConfig (the index file does not)
LoadConfig(config_id) ==
  IF ~FileExists(configFiles, "configs", config_id) THEN 404
  ELSE IF config_id = IndexName THEN 500
  ELSE 200

\* the body of list_configs behind the cache
ConfigListResult(items, page, page_size) == Paginate(items, page, page_size)

\* GET /api/configs?page=..&page_size=..
ListConfigs(page, page_size) ==
  LET cache_key == <<page, page_size>>
      cached == GetCached(cache, cache_key, "configs")
      looked == CacheAfterGet(cache, cache_key, "configs")
      fresh == ConfigListResult(configIndex, page, page_size)
  IN
  /\ IF cached # <<>>
     THEN /\ response' = [req |-> "list_configs", code |-> 200,
                          id |-> <<"none", 0>>,
                          key |-> cache_key, body |-> cached[1]]
          /\ cache' = looked
     ELSE /\ response' = [req |-> "list_configs", code |-> 200,
                          id |-> <<"none", 0>>,
                          key |-> cache_key, body |-> fresh]
          /\ cache' = SetCached(looked, cache_key, fresh, CONFIG_LIST_TTL,
                                "configs")
  /\ UNCHANGED <<call, now, nextId, storeVars, tasks, execVars>>

\* GET /api/configs/{config_id}
GetConfig(config_id) ==
  IF LoadConfig(config_id) = 200
  THEN [req |-> "get_config", code |-> 200, id |-> config_id,
        body |-> configFiles[config_id]]
  ELSE [req |-> "get_config", code |-> LoadConfig(config_id),
        id |-> config_id]

GetConfigRequest(config_id) ==
  /\ response' = GetConfig(config_id)
  /\ UNCHANGED <<call, now, nextId, storeVars, cache, tasks, execVars>>

\* POST /api/configs: ModelConfig(id=UUID(generate_id()), ...) with id: str
CreateConfig(name) ==
  /\ LET id_value == UuidObject(nextId["configs"] + 1)
     IN IF StrField(id_value) = "ok"
        THEN LET config == [id |-> id_value, name |-> name, model_id |-> 1,
                            created_at |-> now]
             IN /\ nextId["configs"] < MaxConfigs
                /\ configFiles' = WriteFile(configFiles, config.id, config)
                /\ configIndex' = UpdateIndex(configIndex, config)
                /\ indexExists' = [indexExists EXCEPT !["configs"] = TRUE]
                /\ cache' = InvalidateNamespace(cache, "configs")
                /\ nextId' = [nextId EXCEPT !["configs"] = @ + 1]
                /\ response' =
                     [req |-> "create_config", code |-> 201, id |-> config.id]
        ELSE /\ response' =
                  [req |-> "create_config", code |-> 500, id |-> <<"none", 0>>]
             /\ UNCHANGED <<configFiles, configIndex, indexExists, cache,
                            nextId>>
  /\ UNCHANGED <<call, now, promptFiles, promptIndex, runFiles, runIndex, tasks,
                 execVars>>

\* a config file put into data/configs by hand, as the executor tests do
SeedConfig(name) ==
  /\ nextId["configs"] < MaxConfigs
  /\ LET config_id == Hex(nextId["configs"] + 1)
     IN configFiles' = WriteFile(configFiles, config_id,
                         [id |-> config_id, name |-> name, model_id |-> 1,
                          created_at |-> now])
  /\ nextId' = [nextId EXCEPT !["configs"] = @ + 1]
  /\ UNCHANGED <<call, now, promptFiles, promptIndex, configIndex, runFiles,
                 runIndex, indexExists, cache, tasks, response, execVars>>

\* update_config, lines 381-401: a field is replaced when the request gives
\* it (0 is None: the field left out)
UpdatedConfig(old, name, model_id) ==
  [old EXCEPT !.name = IF name # 0 THEN name ELSE @,
              !.model_id = IF model_id # 0 THEN model_id ELSE @]

\* PUT /api/configs/{config_id}
UpdateConfig(config_id, name, model_id) ==
  /\ IF LoadConfig(config_id) # 200
     THEN /\ response' = [req |-> "update_config",
                          code |-> LoadConfig(config_id), id |-> config_id]
          /\ UNCHANGED <<configFiles, configIndex, indexExists, cache>>
     ELSE LET config == UpdatedConfig(configFiles[config_id], name, model_id)
          IN /\ configFiles' = WriteFile(configFiles, config.id, config)
             /\ configIndex' = UpdateIndex(configIndex, config)
             /\ indexExists' = [indexExists EXCEPT !["configs"] = TRUE]
             /\ cache' = InvalidateNamespace(cache, "configs")
             /\ response' = [req |-> "update_config", code |-> 200,
                             id |-> config_id, body |-> config,
                             given |-> [name |-> name,
                                        model_id |-> model_id]]
  /\ UNCHANGED <<call, now, nextId, promptFiles, promptIndex, runFiles, runIndex,
                 tasks, execVars>>

\* DELETE /api/configs/{config_id}.  With "index" as the id the file that is
\* unlinked is index.json; _remove_from_index then loads the empty default
\* index and saves it.
DeleteConfig(config_id) ==
  /\ IF ~FileExists(configFiles, "configs", config_id)
     THEN /\ response' = [req |-> "delete_config", code |-> 404,
                          id |-> config_id]
          /\ UNCHANGED <<configFiles, configIndex, indexExists, cache>>
     ELSE /\ configFiles' = Unlink(configFiles, config_id)
          /\ configIndex' =
               RemoveFromIndex(IF config_id = IndexName THEN <<>>
                               ELSE configIndex, config_id)
          /\ indexExists' = [indexExists EXCEPT !["configs"] = TRUE]
          /\ cache' = InvalidateNamespace(cache, "configs")
          /\ response' = [req |-> "delete_config", code |-> 204,
                          id |-> config_id]
  /\ UNCHANGED <<call, now, nextId, promptFiles, promptIndex, runFiles, runIndex,
                 tasks, execVars>>

\* ---- runs (src/mvp/api/runs.py) ---------------------------------------------

\* RunMetadata: the fields of a run that its index entry mirrors
RunMetadata(run_data) ==
  [id |-> run_data.id, prompt_id |-> run_data.prompt_id,
   config_id |-> run_data.config_id, status |-> run_data.status,
   started_at |-> run_data.started_at, completed_at |-> run_data.completed_at,
   cost_usd |-> run_data.cost_usd]

\* _update_index_for_run
UpdateIndexForRun(items, run_data, operation) ==
  LET existing_idx == FirstIdx(items, run_data.id)
      changed ==
        IF operation = "add"
        THEN IF existing_idx # 0
             THEN [items EXCEPT ![existing_idx] = RunMetadata(run_data)]
             ELSE Append(items, RunMetadata(run_data))
        ELSE WithoutId(items, run_data.id)
  IN SortItems(changed, "started_at", TRUE)

\* storage.get_collection_path: only the three collections have a path
GetCollectionPath(collection_name) ==
  IF collection_name \in COLLECTIONS THEN collection_name ELSE "ValueError"

ValidatePromptExists(prompt_id) ==
  IF prompt_id \in DOMAIN promptFiles THEN "ok" ELSE "404"

ValidateConfigExists(config_id) ==
  IF config_id \in DOMAIN configFiles THEN "ok" ELSE "404"

\* _validate_document_exists: get_collection_path("..") / "documents"
ValidateDocumentExists(doc_exists) ==
  IF GetCollectionPath("..") = "ValueError" THEN "ValueError"
  ELSE IF doc_exists THEN "ok" ELSE "404"

\* Run.validate_completion, run when a stored record is parsed into a Run
ValidateCompletion(data) ==
  IF data.completed_at # NoTime /\ data.completed_at < data.started_at
  THEN "ValidationError" ELSE "ok"

\* POST /api/runs; doc_exists: whether documents/{document_name} is a file
CreateRun(prompt_id, config_id, doc_exists) ==
  LET given == [prompt |-> prompt_id \in DOMAIN promptFiles,
                config |-> config_id \in DOMAIN configFiles,
                document |-> doc_exists]
      failed(code, what) ==
        /\ response' = [req |-> "create_run", code |-> code,
                        id |-> <<"none", 0>>, detail |-> what, given |-> given]
        /\ UNCHANGED <<nextId, runFiles, runIndex, indexExists, tasks>>
  IN
  /\ IF ValidatePromptExists(prompt_id) # "ok" THEN failed(404, "prompt")
     ELSE IF ValidateConfigExists(config_id) # "ok" THEN failed(404, "config")
     ELSE IF ValidateDocumentExists(doc_exists) = "404"
          THEN failed(404, "document")
     ELSE IF ValidateDocumentExists(doc_exists) = "ValueError"
          THEN failed(500, "ValueError")
     ELSE LET run_id == Hex(nextId["runs"] + 1)
              run_data == [id |-> run_id, prompt_id |-> prompt_id,
                           config_id |-> config_id,
                           status |-> "pending", started_at |-> now,
                           completed_at |-> NoTime, output |-> "None",
                           metrics |-> NoMetrics, cost_usd |-> "None",
                           tokens |-> "None"]
          IN /\ nextId["runs"] < MaxRuns
             /\ runFiles' = WriteFile(runFiles, run_id, run_data)
             /\ runIndex' = UpdateIndexForRun(runIndex, run_data, "add")
             /\ indexExists' = [indexExists EXCEPT !["runs"] = TRUE]
             /\ tasks' = tasks \cup {[run_id |-> run_id, prompt_id |-> prompt_id,
                                      config_id |-> config_id]}
             /\ nextId' = [nextId EXCEPT !["runs"] = @ + 1]
             /\ response' = [req |-> "create_run", code |-> 202, id |-> run_id,
                             detail |-> "pending", given |-> given]
  /\ UNCHANGED <<call, now, promptFiles, promptIndex, configFiles, configIndex,
                 cache, execVars>>

\* GET /api/runs/{run_id}: 404, or the stored record parsed as a Run (the
\* index file does not validate as one)
GetRun(run_id) ==
  IF ~FileExists(runFiles, "runs", run_id)
  THEN [req |-> "get_run", code |-> 404, id |-> run_id, detail |-> "none"]
  ELSE IF run_id = IndexName \/ ValidateCompletion(runFiles[run_id]) # "ok"
  THEN [req |-> "get_run", code |-> 500, id |-> run_id, detail |-> "none"]
  ELSE [req |-> "get_run", code |-> 200, id |-> run_id,
        detail |-> runFiles[run_id].status]

\* GET /api/runs/{run_id} as a request: a client polling the run
PollRun(run_id) ==
  /\ response' = GetRun(run_id)
  /\ UNCHANGED <<call, now, nextId, storeVars, cache, tasks, execVars>>

Statuses == {"pending", "running", "completed", "failed"}

\* list_runs: the index items, filtered by status when one is given
\* ("" is no filter); the answer is built from the index alone
ListRuns(items, status) ==
  IF status # "" THEN SelectSeq(items, LAMBDA item : item.status = status)
  ELSE items

\* GET /api/runs?status=...
ListRunsRequest(status) ==
  /\ response' = [req |-> "list_runs", code |-> 200, id |-> <<"none", 0>>,
                  detail |-> status,
                  runs |-> ListRuns(runIndex, status)]
  /\ UNCHANGED <<call, now, nextId, storeVars, cache, tasks, execVars>>

\* DELETE /api/runs/{run_id}.  With "index" as the id the file that is
\* unlinked is index.json; _update_index_for_run then loads the empty
\* default index and saves it.
DeleteRun(run_id) ==
  /\ IF ~FileExists(runFiles, "runs", run_id)
     THEN /\ response' = [req |-> "delete_run", code |-> 404, id |-> run_id]
          /\ UNCHANGED <<runFiles, runIndex, indexExists>>
     ELSE /\ runFiles' = Unlink(runFiles, run_id)
          /\ runIndex' =
               IF run_id = IndexName THEN SortItems(<<>>, "started_at", TRUE)
               ELSE UpdateIndexForRun(runIndex, runFiles[run_id], "remove")
          /\ indexExists' = [indexExists EXCEPT !["runs"] = TRUE]
          /\ response' = [req |-> "delete_run", code |-> 204, id |-> run_id]
  /\ UNCHANGED <<call, now, nextId, promptFiles, promptIndex, configFiles,
                 configIndex, cache, tasks, execVars>>

\* ---- executor (src/mvp/services/executor.py) --------------------------------
Resources == <<"prompt", "config", "document", "ground_truth">>

NotFoundError(resource) ==
  CASE resource = "prompt" -> "PromptNotFoundError"
    [] resource = "config" -> "ConfigNotFoundError"
    [] resource = "document" -> "DocumentNotFoundError"
    [] resource = "ground_truth" -> "GroundTruthNotFoundError"

TypedErrors == {NotFoundError(Resources[i]) : i \in 1..4}

\* what loading each resource gives: "ok", "missing" (no such file: the
\* loader raises its typed error) or "invalid" (the file is there but
\* reading, decoding or validating it raises some other exception)
Outcomes == {"ok", "missing", "invalid"}

\* what the four loads of one call do: fail[1] is the first resource, in
\* loading order, that does not load (0: all load) and fail[2] how it fails.
\* A prompt or config is missing exactly when its file is not stored;
\* documents and ground truth live outside the data directory.
Resolutions(a) ==
  {fail \in (0..4) \X Outcomes :
     /\ (fail[1] = 0) <=> (fail[2] = "ok")
     /\ (a.prompt_id \notin DOMAIN promptFiles) =>
           (fail[1] = 1 /\ fail[2] = "missing")
     /\ (a.prompt_id \in DOMAIN promptFiles /\ fail[1] = 1) =>
           fail[2] = "invalid"
     /\ (a.config_id \notin DOMAIN configFiles /\ fail[1] \notin {1}) =>
           (fail[1] = 2 /\ fail[2] = "missing")
     /\ (a.config_id \in DOMAIN configFiles /\ fail[1] = 2) =>
           fail[2] = "invalid"}

\* execute_run's _to_hex: a 36 character id is rewritten to its hex form
ToHex(id_str) == IF id_str[1] = "dashed" THEN Hex(ParseUuid(id_str)) ELSE id_str

\* Run(**data): the stored id strings become UUIDs
ParseRun(data) ==
  [data EXCEPT !.id = ParseUuid(data.id),
               !.prompt_id = ParseUuid(data.prompt_id),
               !.config_id = ParseUuid(data.config_id)]

\* run.model_dump_json(): a UUID is written in its dashed form
DumpRun(r) ==
  [r EXCEPT !.id = Dashed(r.id), !.prompt_id = Dashed(r.prompt_id),
            !.config_id = Dashed(r.config_id)]

\* _save_run: runs/{run.id}.json, the file name formatted from the UUID
SaveRun(files, r) == WriteFile(files, Dashed(r.id), DumpRun(r))

\* Run(id=..., prompt_id=..., config_id=..., status="pending")
NewRun(id_str, prompt_id, config_id) ==
  [id |-> ParseUuid(id_str), prompt_id |-> ParseUuid(prompt_id),
   config_id |-> ParseUuid(config_id), status |-> "pending",
   started_at |-> now, completed_at |-> NoTime, output |-> "None",
   metrics |-> NoMetrics, cost_usd |-> "None", tokens |-> "None"]

\* the run ids a direct caller passes: an id handed out before, or a new
\* one it has made with uuid4(), in either form
RunIdArgs ==
  LET us == {u \in RunUuids : u <= nextId["runs"] + 1}
  IN {Hex(u) : u \in us} \cup {Dashed(u) : u \in us}

\* every triple of ids execute_run can be called with
ExecArgs == [run_id : RunIds, prompt_id : PromptIds, config_id : ConfigIds]

DirectArgs ==
  {[run_id |-> r, prompt_id |-> p, config_id |-> k] :
     r \in RunIdArgs, p \in PromptIds, k \in ConfigIds}

\* executor.create_run: a pending run with a fresh id, saved
ServiceCreateRun(prompt_id, config_id) ==
  /\ nextId["runs"] < MaxRuns
  /\ runFiles' = SaveRun(runFiles,
                         NewRun(Hex(nextId["runs"] + 1), prompt_id, config_id))
  /\ nextId' = [nextId EXCEPT !["runs"] = @ + 1]
  /\ UNCHANGED <<call, now, promptFiles, promptIndex, configFiles, configIndex,
                 runIndex, indexExists, cache, tasks, response, execVars>>

\* execute_run, lines 511-528: load the run record or make a fresh one.
\* The call is a background task taken from the queue or a direct call.
\* Invocations are interchangeable, so a call takes the lowest slot that is
\* free: slot c is taken only while every lower slot is busy.
ExecLoad(c, a) ==
  /\ pc[c] \in {"idle", "done"}
  /\ \A d \in Calls : d < c => pc[d] \notin {"idle", "done"}
  /\ a \in tasks \cup DirectArgs
  /\ tasks' = tasks \ {a}
  /\ args' = [args EXCEPT ![c] = a]
  /\ saved' = [saved EXCEPT ![c] = <<>>]
  /\ loads' = [loads EXCEPT ![c] = NoLoads]
  /\ extraction' = [extraction EXCEPT ![c] = "none"]
  /\ IF a.run_id \in DOMAIN runFiles
     THEN IF ValidateCompletion(runFiles[a.run_id]) = "ok"
          THEN /\ run' = [run EXCEPT ![c] = ParseRun(runFiles[a.run_id])]
               /\ pc' = [pc EXCEPT ![c] = "loaded"]
               /\ result' = [result EXCEPT ![c] = "none"]
          ELSE /\ run' = [run EXCEPT ![c] = NoRun]
               /\ pc' = [pc EXCEPT ![c] = "done"]
               /\ result' = [result EXCEPT ![c] = "ValidationError"]
     ELSE /\ run' = [run EXCEPT ![c] =
                       NewRun(ToHex(a.run_id), ToHex(a.prompt_id),
                              ToHex(a.config_id))]
          /\ pc' = [pc EXCEPT ![c] = "loaded"]
          /\ result' = [result EXCEPT ![c] = "none"]
  /\ nextId' = IF ParseUuid(a.run_id) > nextId["runs"]
                THEN [nextId EXCEPT !["runs"] = ParseUuid(a.run_id)]
                ELSE nextId
  /\ UNCHANGED <<call, now, storeVars, cache, response>>

\* every failed load wrapped, the loaders' own errors too
LoadErrorWrapped(fail) == "ExecutorError"

\* what execute_run raises when a load fails: a loader's own error is an
\* ExecutorError and passes through, anything else is wrapped
LoadError(fail) ==
  IF fail[2] = "missing" THEN NotFoundError(Resources[fail[1]])
  ELSE "ExecutorError"

\* except ExecutorError: raise, with the run object as it was
\* except Exception: the run is marked failed and stamped
RunAfterFailedLoad(r, fail) ==
  IF fail[2] = "missing" THEN r
  ELSE [r EXCEPT !.status = "failed", !.completed_at = now]

\* only the except Exception branch calls _save_run
SavesAfterFailedLoad(fail) == fail[2] # "missing"

\* step 2: run.status = "running"; run.started_at = datetime.utcnow()
RunningRun(r) == [r EXCEPT !.status = "running", !.started_at = now]

\* execute_run, lines 530-547: load prompt, config, document and ground
\* truth in this order, then persist the run as running
ExecResolve(c, fail) ==
  /\ pc[c] = "loaded"
  /\ fail \in Resolutions(args[c])
  /\ loads' = [loads EXCEPT ![c] = fail]
  /\ IF fail[1] = 0
     THEN LET r == RunningRun(run[c])
          IN /\ run' = [run EXCEPT ![c] = r]
             /\ runFiles' = SaveRun(runFiles, r)
             /\ saved' = [saved EXCEPT ![c] = Append(@, r.status)]
             /\ pc' = [pc EXCEPT ![c] = "extracting"]
             /\ UNCHANGED result
     ELSE LET r == RunAfterFailedLoad(run[c], fail)
          IN /\ run' = [run EXCEPT ![c] = r]
             /\ IF SavesAfterFailedLoad(fail)
                THEN /\ runFiles' = SaveRun(runFiles, r)
                     /\ saved' = [saved EXCEPT ![c] = Append(@, r.status)]
                ELSE UNCHANGED <<runFiles, saved>>
             /\ result' = [result EXCEPT ![c] = LoadError(fail)]
             /\ pc' = [pc EXCEPT ![c] = "done"]
  /\ UNCHANGED <<call, now, nextId, promptFiles, promptIndex, configFiles,
                 configIndex, runIndex, indexExists, cache, tasks, response,
                 args, extraction>>

\* how steps 3 to 6 end: the extraction call raises; it returns and the
\* metric or cost computation raises; or all of it succeeds
Endings == {"extraction_raises", "scoring_raises", "succeeds"}

\* step 4: the keys of the metrics dict, metrics["latency_ms"] added last
ScoredMetrics == {"recall", "precision", "f1"} \cup {"latency_ms"}

\* step 6 without run.cost_usd = cost
CompletedRunWithoutCost(r) ==
  [r EXCEPT !.output = "result", !.metrics = ScoredMetrics,
            !.tokens = "tokens", !.status = "completed",
            !.completed_at = now]

\* steps 4 to 6: output, metrics, tokens and cost are put on the run and
\* it is completed
CompletedRun(r) ==
  [r EXCEPT !.output = "result", !.metrics = ScoredMetrics,
            !.tokens = "tokens", !.cost_usd = "cost",
            !.status = "completed", !.completed_at = now]

\* the failure branch without run.output = {"error": str(e)}
FailedRunKeepsOutput(r) ==
  [r EXCEPT !.status = "failed", !.completed_at = now]

\* the failure branch without run.status = "failed"
FailedRunStillRunning(r) ==
  [r EXCEPT !.completed_at = now, !.output = "error"]

\* the except Exception branch around steps 3 to 6
FailedRun(r) ==
  [r EXCEPT !.status = "failed", !.completed_at = now, !.output = "error"]

\* what the caller gets: the run, or the exception wrapped
FinishResult(ending) ==
  IF ending = "succeeds" THEN "returned" ELSE "ExtractionError"

\* execute_run, lines 549-613
ExecFinish(c, ending) ==
  /\ pc[c] = "extracting"
  /\ ending \in Endings
  /\ extraction' = [extraction EXCEPT ![c] = ending]
  /\ LET r == IF ending = "succeeds" THEN CompletedRun(run[c])
              ELSE FailedRun(run[c])
     IN /\ run' = [run EXCEPT ![c] = r]
        /\ runFiles' = SaveRun(runFiles, r)
        /\ saved' = [saved EXCEPT ![c] = Append(@, r.status)]
  /\ result' = [result EXCEPT ![c] = FinishResult(ending)]
  /\ pc' = [pc EXCEPT ![c] = "done"]
  /\ UNCHANGED <<call, now, nextId, promptFiles, promptIndex, configFiles,
                 configIndex, runIndex, indexExists, cache, tasks, response,
                 args, loads>>

\* the ids a path parameter takes: an id or the name "index"
PathIds(ids) == ids \cup {IndexName}

\* ---- specification ------------------------------------------------------
ApiNext ==
  \/ \E name \in Names : CreatePrompt(name, 0, NoParent)
  \/ \E id \in PathIds(PromptIds), name \in Names \cup {0} :
       UpdatePrompt(id, name, 0)
  \/ \E id \in PathIds(PromptIds) : DeletePrompt(id)
  \/ \E id \in PathIds(PromptIds) : GetPromptRequest(id)
  \/ \E page \in Pages, page_size \in PageSizes : ListPrompts(page, page_size)
  \/ \E name \in Names : CreateConfig(name)
  \/ \E id \in PathIds(ConfigIds), name \in Names \cup {0} :
       UpdateConfig(id, name, 0)
  \/ \E id \in PathIds(ConfigIds) : DeleteConfig(id)
  \/ \E id \in PathIds(ConfigIds) : GetConfigRequest(id)
  \/ \E page \in Pages, page_size \in PageSizes : ListConfigs(page, page_size)
  \/ \E p \in PromptIds, k \in ConfigIds, d \in BOOLEAN : CreateRun(p, k, d)
  \/ \E id \in PathIds(RunIds) : PollRun(id)
  \/ \E status \in Statuses \cup {""} : ListRunsRequest(status)
  \/ \E id \in PathIds(RunIds) : DeleteRun(id)

Next ==
  \/ Tick
  \/ ApiNext
  \/ \E name \in Names : SeedPrompt(name)
  \/ \E name \in Names : SeedConfig(name)
  \/ \E p \in PromptIds, k \in ConfigIds : ServiceCreateRun(p, k)
  \/ \E c \in Calls, a \in ExecArgs : ExecLoad(c, a)
  \/ \E c \in Calls, fail \in (0..4) \X Outcomes : ExecResolve(c, fail)
  \/ \E c \in Calls, ending \in Endings : ExecFinish(c, ending)

Spec == Init /\ [][Next]_vars

\* the REST handlers alone
EndpointsNext == Tick \/ ApiNext

SpecEndpoints == Init /\ [][EndpointsNext]_vars

\* the run endpoints over a data directory with at most one prompt, made by
\* POST /api/prompts, and one config file, put there by hand; both may be
\* deleted again
SeededApiNext ==
  \/ Tick
  \/ nextId["prompts"] = 0 /\ CreatePrompt(1, 0, NoParent)
  \/ DeletePrompt(Hex(1))
  \/ nextId["configs"] = 0 /\ SeedConfig(1)
  \/ DeleteConfig(Hex(1))
  \/ \E d \in BOOLEAN : CreateRun(Hex(1), Hex(1), d)
  \/ \E id \in PathIds(RunIds) : PollRun(id)
  \/ \E status \in Statuses \cup {""} : ListRunsRequest(status)
  \/ \E id \in PathIds(RunIds) : DeleteRun(id)

SpecApi == Init /\ [][SeededApiNext]_vars

\* the run endpoints and the executor: background tasks and direct calls
RunsNext ==
  \/ SeededApiNext
  \/ ServiceCreateRun(Hex(1), Hex(1))
  \/ \E c \in Calls, a \in ExecArgs : ExecLoad(c, a)
  \/ \E c \in Calls, fail \in (0..4) \X Outcomes : ExecResolve(c, fail)
  \/ \E c \in Calls, ending \in Endings : ExecFinish(c, ending)

SpecRuns == Init /\ [][RunsNext]_vars

\* the executor service called directly, as a library, one call after the
\* other: the data directory gets at most one prompt file and one config
\* file, put there by hand, and every call names prompt 1 and config 1
ExecNext ==
  \/ Tick
  \/ nextId["prompts"] = 0 /\ SeedPrompt(1)
  \/ nextId["configs"] = 0 /\ SeedConfig(1)
  \/ ServiceCreateRun(Hex(1), Hex(1))
  \/ \E id \in RunIds :
       ExecLoad(1, [run_id |-> id, prompt_id |-> Hex(1), config_id |-> Hex(1)])
  \/ \E fail \in (0..4) \X Outcomes : ExecResolve(1, fail)
  \/ \E ending \in Endings : ExecFinish(1, ending)

SpecExec == Init /\ [][ExecNext]_vars

\* the prompt and config endpoints with their list caches, over at most one
\* prompt and one config file; a path id is an id or the name "index"
CacheNext ==
  \/ Tick
  \/ nextId["prompts"] = 0 /\ CreatePrompt(1, 0, NoParent)
  \/ \E id \in {Hex(1), IndexName}, name \in Names : UpdatePrompt(id, name, 0)
  \/ \E id \in {Hex(1), IndexName} : DeletePrompt(id)
  \/ \E page \in Pages, page_size \in PageSizes : ListPrompts(page, page_size)
  \/ CreateConfig(1)
  \/ nextId["configs"] = 0 /\ SeedConfig(1)
  \/ \E id \in {Hex(1), IndexName}, name \in Names : UpdateConfig(id, name, 0)
  \/ \E id \in {Hex(1), IndexName} : DeleteConfig(id)
  \/ \E page \in Pages, page_size \in PageSizes : ListConfigs(page, page_size)

SpecCache == Init /\ [][CacheNext]_vars

\* create, read, update and delete through the endpoints, over one prompt
\* made by POST /api/prompts (a fork of some other prompt), one config
\* file put there by hand and one run record written by the executor
\* service; a path id is an id or the name "index"

CrudNext ==
  \/ Tick
  \/ \E description \in {0, 1} :
       nextId["prompts"] = 0 /\ CreatePrompt(1, description, Hex(2))
  \/ \E id \in PathIds({Hex(1)}), name \in Names \cup {0},
        description \in {0, 2} : UpdatePrompt(id, name, description)
  \/ \E id \in PathIds({Hex(1)}) : DeletePrompt(id)
  \/ \E id \in PathIds({Hex(1)}) : GetPromptRequest(id)
  \/ nextId["configs"] = 0 /\ SeedConfig(1)
  \/ \E id \in PathIds({Hex(1)}), name \in Names \cup {0},
        model_id \in {0, 2} : UpdateConfig(id, name, model_id)
  \/ \E id \in PathIds({Hex(1)}) : DeleteConfig(id)
  \/ \E id \in PathIds({Hex(1)}) : GetConfigRequest(id)
  \/ nextId["runs"] = 0 /\ ServiceCreateRun(Hex(1), Hex(1))
  \/ \E id \in PathIds({Hex(1), Dashed(1)}) : DeleteRun(id)
  \/ \E id \in PathIds({Hex(1), Dashed(1)}) : PollRun(id)

SpecCrud == Init /\ [][CrudNext]_vars

\* creates, updates and deletes of one prompt (a fork of some other prompt)
\* and of one config file; a path id is an id or the name "index"
UpdateNext ==
  \/ Tick
  \/ \E description \in {0, 1} :
       nextId["prompts"] = 0 /\ CreatePrompt(1, description, Hex(2))
  \/ \E id \in PathIds({Hex(1)}), name \in Names \cup {0},
        description \in {0, 2} : UpdatePrompt(id, name, description)
  \/ \E id \in PathIds({Hex(1)}) : DeletePrompt(id)
  \/ nextId["configs"] = 0 /\ SeedConfig(1)
  \/ \E id \in PathIds({Hex(1)}), name \in Names \cup {0},
        model_id \in {0, 2} : UpdateConfig(id, name, model_id)
  \/ \E id \in PathIds({Hex(1)}) : DeleteConfig(id)

SpecUpdate == Init /\ [][UpdateNext]_vars

\* runs and the prompt and config they reference: one prompt and one config
\* file, runs written by the executor service, and the delete and get
\* requests of the three collections
RefsNext ==
  \/ Tick
  \/ nextId["prompts"] = 0 /\ CreatePrompt(1, 0, NoParent)
  \/ nextId["configs"] = 0 /\ SeedConfig(1)
  \/ ServiceCreateRun(Hex(1), Hex(1))
  \/ \E id \in PathIds({Hex(1)}) : DeletePrompt(id)
  \/ \E id \in PathIds({Hex(1)}) : DeleteConfig(id)
  \/ \E id \in RunIds : PollRun(id)

SpecRefs == Init /\ [][RefsNext]_vars

\* ---- properties -----------------------------------------------------------
\* one invocation finishing steps 3 to 6 in this step
Finishes(c) == pc[c] = "extracting" /\ pc'[c] = "done"

\* the record stored for the run an invocation works on is that run
Persisted(files, r) ==
  /\ Dashed(r.id) \in DOMAIN files
  /\ files[Dashed(r.id)] = DumpRun(r)

\* C1: once the stored status of a run is completed or failed, no step
\* that leaves the record in place changes that status.
C1_TerminalStatusIsFinal ==
  [][\A n \in DOMAIN runFiles :
       (runFiles[n].status \in Terminal /\ n \in DOMAIN runFiles')
         => runFiles'[n].status = runFiles[n].status]_vars

\* C2: an invocation whose loading of prompt, config, document or ground
\* truth failed has marked the run failed with completed_at set, has
\* persisted it, and has raised a typed error.
C2_FailedLoadMarksFailed ==
  \A c \in Calls :
    (pc[c] = "done" /\ loads[c][1] # 0) =>
      /\ run[c].status = "failed"
      /\ run[c].completed_at # NoTime
      /\ saved[c] = <<"failed">>
      /\ result[c] \in TypedErrors \cup {"ExecutorError"}

\* C3: when the extraction call raises, or the metric and cost computation
\* after it does, the step persists the run as failed with output
\* {"error": message} and completed_at set, and raises ExtractionError.
C3_ExtractionFailurePersisted ==
  [][\A c \in Calls :
       (Finishes(c) /\ extraction'[c] \in {"extraction_raises",
                                           "scoring_raises"}) =>
         /\ run'[c].status = "failed"
         /\ run'[c].output = "error"
         /\ run'[c].completed_at = now
         /\ Persisted(runFiles', run'[c])
         /\ result'[c] = "ExtractionError"]_vars

C3_Witness ==
  \E c \in Calls :
    /\ pc[c] = "done"
    /\ extraction[c] = "scoring_raises"
    /\ result[c] = "ExtractionError"
    /\ Persisted(runFiles, run[c])
    /\ run[c].output = "error"

\* what C5 promises of a finished run
CompletedWithResults(r) ==
  /\ r.status = "completed"
  /\ r.completed_at # NoTime
  /\ r.output = "result"
  /\ "latency_ms" \in r.metrics
  /\ r.tokens = "tokens"
  /\ r.cost_usd = "cost"

\* C5 as stated: whenever the four resources resolve and the extraction
\* call returns, the run is persisted and returned completed with output,
\* metrics, tokens and cost.
C5_CompletedWhenExtractionReturns ==
  [][\A c \in Calls :
       (Finishes(c) /\ extraction'[c] \in {"scoring_raises", "succeeds"}) =>
         /\ CompletedWithResults(run'[c])
         /\ Persisted(runFiles', run'[c])
         /\ result'[c] = "returned"]_vars

\* C5 amended: whenever the four resources resolve, the extraction call
\* returns and the metric and cost computation does not raise, the run is
\* persisted and returned completed with completed_at, output, metrics
\* (with latency_ms), tokens and cost.
C5_CompletedWhenScoringSucceeds ==
  [][\A c \in Calls :
       (Finishes(c) /\ extraction'[c] = "succeeds") =>
         /\ CompletedWithResults(run'[c])
         /\ Persisted(runFiles', run'[c])
         /\ result'[c] = "returned"]_vars

C5_Witness ==
  \E c \in Calls :
    /\ pc[c] = "done"
    /\ loads[c] = <<0, "ok">>
    /\ extraction[c] = "succeeds"
    /\ result[c] = "returned"
    /\ Persisted(runFiles, run[c])
    /\ run[c].status = "completed"

\* C6: an invocation for a document whose ground-truth file is missing
\* (prompt, config and document load) raises GroundTruthNotFoundError
\* and never persists the run with status running.
C6_NoGroundTruthNeverRunning ==
  \A c \in Calls :
    loads[c] = <<4, "missing">> =>
      /\ pc[c] = "done"
      /\ result[c] = "GroundTruthNotFoundError"
      /\ \A i \in 1..Len(saved[c]) : saved[c][i] # "running"

C6_Witness ==
  \E c \in Calls :
    /\ loads[c] = <<4, "missing">>
    /\ pc[c] = "done"
    /\ args[c].prompt_id \in DOMAIN promptFiles
    /\ args[c].config_id \in DOMAIN configFiles

\* a POST /api/runs answered in this step
AnswersCreateRun == response' # response /\ response'.req = "create_run"

\* C4: a POST /api/runs for existing prompt, config and document returns
\* the id of the run it created, and once no execution of that run is
\* queued or in progress after one has finished, GET /api/runs/{id}
\* returns the run with the terminal status the execution persisted.
C4_PollingObservesTerminal ==
  (/\ response.req = "create_run"
   /\ response.given.prompt /\ response.given.config
   /\ response.given.document) =>
    /\ response.code = 202
    /\ LET mine(a) == a.run_id = response.id
       IN (/\ \A a \in tasks : ~mine(a)
           /\ \A c \in Calls : mine(args[c]) => pc[c] = "done"
           /\ \E c \in Calls : mine(args[c]))
          => /\ GetRun(response.id).code = 200
             /\ GetRun(response.id).detail \in Terminal

\* C7: a POST /api/runs whose prompt, config and document all exist is
\* answered 202 with the run id and status pending; the step stores the
\* pending run, adds exactly one index entry for it and schedules exactly
\* one execution.
C7_CreateRunAccepted ==
  [][(/\ AnswersCreateRun
      /\ response'.given.prompt /\ response'.given.config
      /\ response'.given.document) =>
       /\ response'.code = 202
       /\ response'.detail = "pending"
       /\ response'.id \notin DOMAIN runFiles
       /\ response'.id \in DOMAIN runFiles'
       /\ runFiles'[response'.id].status = "pending"
       /\ Len(runIndex') = Len(runIndex) + 1
       /\ Len(SelectSeq(runIndex', LAMBDA it : it.id = response'.id)) = 1
       /\ Cardinality(tasks' \ tasks) = 1
       /\ \A a \in tasks' \ tasks : a.run_id = response'.id]_vars

\* C8: a POST /api/runs for which the prompt, the config or the document
\* does not exist is answered 404, and the step writes no run file, adds
\* no index entry and schedules no execution.
C8_CreateRunMissingReferent ==
  [][(/\ AnswersCreateRun
      /\ ~(/\ response'.given.prompt /\ response'.given.config
           /\ response'.given.document)) =>
       /\ response'.code = 404
       /\ UNCHANGED <<runFiles, runIndex, tasks>>]_vars

\* the ids of a collection's entity files
FileIds(files) == {files[n].id : n \in DOMAIN files}

\* an index with exactly one entry per entity file and no other entry
IndexMatchesFiles(items, files) ==
  /\ IndexIds(items) = FileIds(files)
  /\ Len(items) = Cardinality(FileIds(files))

\* C9: after any sequence of create, update and delete requests through
\* the endpoints, each collection's index holds exactly the ids of the
\* collection's entity files, each id once.
C9_IndexMatchesFiles ==
  /\ IndexMatchesFiles(promptIndex, promptFiles)
  /\ IndexMatchesFiles(configIndex, configFiles)
  /\ IndexMatchesFiles(runIndex, runFiles)

\* C10: once an invocation of execute_run has returned, the runs index has
\* exactly one entry per run file, each entry mirrors the status,
\* completed_at and cost_usd of its file, and listing by status gives the
\* runs stored with that status.
C10_RunIndexInSyncAfterExecution ==
  (\E c \in Calls : pc[c] = "done" /\ result[c] = "returned") =>
    /\ IndexMatchesFiles(runIndex, runFiles)
    /\ \A n \in DOMAIN runFiles :
         \A i \in 1..Len(runIndex) :
           runIndex[i].id = runFiles[n].id =>
             /\ runIndex[i].status = runFiles[n].status
             /\ runIndex[i].completed_at = runFiles[n].completed_at
             /\ runIndex[i].cost_usd = runFiles[n].cost_usd
    /\ \A st \in Statuses :
         IndexIds(ListRuns(runIndex, st)) =
           {runFiles[n].id : n \in {m \in DOMAIN runFiles :
                                      runFiles[m].status = st}}

\* a step in which a list request of this kind is answered
ListStep(req) ==
  /\ response'.req = req
  /\ response' # response \/ cache' # cache

\* C11: a list request for prompts or configs is answered with the result
\* computed from the index as the latest completed write left it, whether
\* the answer comes from the cache or not: the cache never serves a list
\* older than the latest write.
C11_ListNeverStale ==
  [][/\ ListStep("list_prompts") =>
          response'.body = PromptListResult(promptIndex, response'.key[1],
                                            response'.key[2])
     /\ ListStep("list_configs") =>
          response'.body = ConfigListResult(configIndex, response'.key[1],
                                            response'.key[2])]_vars

\* a prompt list answered after a write, with other pages still cached
C11_Witness ==
  /\ response.req = "list_prompts"
  /\ promptIndex # <<>>
  /\ response.body.total = Len(promptIndex)
  /\ Cardinality(DOMAIN Namespace(cache, "prompts")) > 1

\* what a delete request for id must do to the files and index of its
\* collection: an entity that exists is gone from both and nothing else
\* has changed, a get answers 404 afterwards; an id that does not exist is
\* answered 404 and nothing has changed
DeleteEffect(id, files, filesAfter, index, indexAfter, getAfter) ==
  IF id \in DOMAIN files
  THEN /\ response'.code = 204
       /\ filesAfter = Unlink(files, id)
       /\ indexAfter = WithoutId(index, id)
       /\ getAfter.code = 404
  ELSE /\ response'.code = 404
       /\ filesAfter = files
       /\ indexAfter = index

\* C12: a delete of an existing prompt, config or run removes its file and
\* its index entry and leaves every other entity as it was; a delete of an
\* id that does not exist answers 404 and changes nothing.
C12_DeleteRemovesOnlyTheEntity ==
  [][/\ \A id \in PathIds(PromptIds) :
          DeletePrompt(id) =>
            DeleteEffect(id, promptFiles, promptFiles', promptIndex,
                         promptIndex', GetPrompt(id)')
     /\ \A id \in PathIds(ConfigIds) :
          DeleteConfig(id) =>
            DeleteEffect(id, configFiles, configFiles', configIndex,
                         configIndex', GetConfig(id)')
     /\ \A id \in PathIds(RunIds) :
          DeleteRun(id) =>
            DeleteEffect(id, runFiles, runFiles', runIndex, runIndex',
                         GetRun(id)')]_vars

\* the index entry of an entity, <<>> when it has none
IndexEntry(items, id) ==
  IF FirstIdx(items, id) = 0 THEN <<>> ELSE <<items[FirstIdx(items, id)]>>

\* an update of record old into record new changed the fields of the set
\* provided to the values given, and no other field
OnlyProvidedChanged(old, new, given) ==
  /\ DOMAIN new = DOMAIN old
  /\ \A f \in DOMAIN old :
       new[f] = IF f \in DOMAIN given /\ given[f] # 0 THEN given[f]
                ELSE old[f]

\* C13: an update of a prompt or config changes the fields the request
\* provides and no other: id, created_at and parent_id stay, in the entity
\* file and in the index entry, and every other entity stays as it was.
C13_UpdateChangesOnlyProvided ==
  [][/\ \A id \in PromptIds, name \in Names \cup {0}, description \in 0..2 :
          UpdatePrompt(id, name, description) /\ response'.code = 200 =>
            /\ OnlyProvidedChanged(promptFiles[id], promptFiles'[id],
                                   [name |-> name, description |-> description])
            /\ promptFiles' = WriteFile(promptFiles, id, promptFiles'[id])
            /\ IndexEntry(promptIndex', id) = <<promptFiles'[id]>>
            /\ WithoutId(promptIndex', id) = WithoutId(promptIndex, id)
     /\ \A id \in ConfigIds, name \in Names \cup {0}, model_id \in 0..2 :
          UpdateConfig(id, name, model_id) /\ response'.code = 200 =>
            /\ OnlyProvidedChanged(configFiles[id], configFiles'[id],
                                   [name |-> name, model_id |-> model_id])
            /\ configFiles' = WriteFile(configFiles, id, configFiles'[id])
            /\ IndexEntry(configIndex', id) = <<configFiles'[id]>>
            /\ WithoutId(configIndex', id) = WithoutId(configIndex, id)]_vars

\* a prompt with a description and a parent, renamed by an update that
\* leaves the description out
C13_Witness ==
  /\ response.req = "update_prompt"
  /\ response.code = 200
  /\ response.given.name # 0
  /\ response.given.description = 0
  /\ response.id \in DOMAIN promptFiles
  /\ promptFiles[response.id].name = response.given.name
  /\ promptFiles[response.id].description # 0
  /\ promptFiles[response.id].parent_id # NoParent

\* every run record is stored as before and a get answers as before
RunsUntouched ==
  /\ runFiles' = runFiles
  /\ runIndex' = runIndex
  /\ \A id \in PathIds(RunIds) : GetRun(id)' = GetRun(id)

\* C14: deleting a prompt or a config neither deletes nor modifies a run
\* that references it: every run is stored with the same content and is
\* fetched by id as before.
C14_DeleteLeavesRuns ==
  [][/\ \A id \in PathIds(PromptIds) : DeletePrompt(id) => RunsUntouched
     /\ \A id \in PathIds(ConfigIds) : DeleteConfig(id) => RunsUntouched]_vars

\* the prompt of a stored run was deleted and the run is still there
C14_Witness ==
  /\ response.req = "delete_prompt"
  /\ response.code = 204
  /\ response.id \notin DOMAIN promptFiles
  /\ \E n \in DOMAIN runFiles :
       /\ ParseUuid(runFiles[n].prompt_id) = ParseUuid(response.id)
       /\ GetRun(n).code = 200

\* the items are in order of their field key
InOrder(items, key, desc) ==
  \A i, j \in 1..Len(items) :
    i < j => IF desc THEN items[i][key] >= items[j][key]
                     ELSE items[i][key] <= items[j][key]

\* the prompt index as it is listed: created_at a datetime
ListedPrompts == [i \in 1..Len(promptIndex) |->
                    PromptDataToMetadata(promptIndex[i])]

\* C15: after every mutation each index is in its collection's order:
\* prompts by created_at, newest first; configs by name, ascending; runs
\* by started_at, newest first.
C15_IndexesSorted ==
  /\ InOrder(ListedPrompts, "created_at", TRUE)
  /\ InOrder(configIndex, "name", FALSE)
  /\ InOrder(runIndex, "started_at", TRUE)

\* ---- mvp/services/metrics.py: calculate_metrics -----------------------------
\* A string is the sequence of its characters.  A float is the exact
\* quotient <<n, d>> it stands for (d > 0), kept in lowest terms; a rounded
\* float is a whole number of millionths.
MaxFields == 3     \* keys of a nested mapping, all levels counted

\* ord(ch)
Ord(ch) ==
  IF ch = " " THEN 32 ELSE IF ch = "-" THEN 45 ELSE IF ch = "." THEN 46
  ELSE IF ch = "A" THEN 65 ELSE IF ch = "a" THEN 97 ELSE 98

\* s < t for strings
RECURSIVE StrLess(_, _)
StrLess(s, t) ==
  IF t = <<>> THEN FALSE
  ELSE IF s = <<>> THEN TRUE
  ELSE IF Head(s) = Head(t) THEN StrLess(Tail(s), Tail(t))
  ELSE Ord(Head(s)) < Ord(Head(t))

\* sorted(list(fields)) listing the greatest first
RECURSIVE SortedDescending(_)
SortedDescending(fields) ==
  IF fields = {} THEN <<>>
  ELSE LET last == CHOOSE s \in fields :
                     \A t \in fields \ {s} : StrLess(t, s)
       IN <<last>> \o SortedDescending(fields \ {last})

\* sorted(list(fields))
RECURSIVE Sorted(_)
Sorted(fields) ==
  IF fields = {} THEN <<>>
  ELSE LET first == CHOOSE s \in fields :
                      \A t \in fields \ {s} : StrLess(s, t)
       IN <<first>> \o Sorted(fields \ {first})

\* str.lower()
Lower(s) == [i \in 1..Len(s) |-> IF s[i] = "A" THEN "a" ELSE s[i]]

RECURSIVE LStrip(_)
LStrip(s) == IF s # <<>> /\ Head(s) = " " THEN LStrip(Tail(s)) ELSE s

RECURSIVE RStrip(_)
RStrip(s) ==
  IF s # <<>> /\ s[Len(s)] = " " THEN RStrip(SubSeq(s, 1, Len(s) - 1)) ELSE s

\* str.strip()
Strip(s) == RStrip(LStrip(s))

NormalizeFieldName(field) == Strip(Lower(field))

\* A nested mapping is a function from keys to values; a value is a scalar
\* or a nested mapping.
Scalar(v) == [isdict |-> FALSE, scalar |-> v, items |-> EmptyDir]
Nested(d) == [isdict |-> TRUE, scalar |-> 0, items |-> d]

\* without the recursion into values that are mappings
GetAllFieldsShallow(data, prefix) ==
  { NormalizeFieldName(IF prefix # <<>> THEN prefix \o <<".">> \o key
                       ELSE key) : key \in DOMAIN data }

RECURSIVE GetAllFields(_, _)
GetAllFields(data, prefix) ==
  UNION { LET field_path == IF prefix # <<>> THEN prefix \o <<".">> \o key
                            ELSE key
          IN {NormalizeFieldName(field_path)} \cup
             (IF data[key].isdict
              THEN GetAllFields(data[key].items, field_path)
              ELSE {})
        : key \in DOMAIN data }

RECURSIVE Gcd(_, _)
Gcd(a, b) == IF b = 0 THEN a ELSE Gcd(b, a % b)

Float(n, d) == LET g == Gcd(n, d) IN <<n \div g, d \div g>>
Zero == Float(0, 1)
Times(x, y) == Float(x[1] * y[1], x[2] * y[2])
Plus(x, y) ==
  LET g == Gcd(x[2], y[2])
  IN Float(x[1] * (y[2] \div g) + y[1] * (x[2] \div g), x[2] * (y[2] \div g))
Over(x, y) == Float(x[1] * y[2], x[2] * y[1])

\* round(x, ndigits): the digits after the point
RoundDigits == 6

\* <<floor(n / d * 10^k), the remainder>>
RECURSIVE Fixed(_, _, _)
Fixed(n, d, k) ==
  IF k = 0 THEN <<n \div d, n % d>>
  ELSE LET p == Fixed(n, d, k - 1)
       IN <<p[1] * 10 + (p[2] * 10) \div d, (p[2] * 10) % d>>

\* round(x, 6) in millionths.  A float that lies halfway between two
\* millionths needs a denominator with a factor 2^7 or 5^7; the inputs
\* drawn below give none.
Round(x) ==
  LET p == Fixed(x[1], x[2], RoundDigits)
  IN IF 2 * p[2] >= x[2] THEN p[1] + 1 ELSE p[1]

One == Round(Float(1, 1))

\* the product over the sum, without the factor 2
F1ScoreUndoubled(precision, recall) ==
  IF Plus(precision, recall)[1] > 0
  THEN Over(Times(precision, recall), Plus(precision, recall))
  ELSE Zero

F1Score(precision, recall) ==
  IF Plus(precision, recall)[1] > 0
  THEN Over(Times(Float(2, 1), Times(precision, recall)),
            Plus(precision, recall))
  ELSE Zero

\* precision and recall with each other's denominator
CalculateMetricsSwapped(output, ground_truth) ==
  LET output_fields == GetAllFields(output, <<>>)
      gt_fields == GetAllFields(ground_truth, <<>>)
      matched_fields == output_fields \cap gt_fields
      total_gt_fields == Cardinality(gt_fields)
      total_output_fields == Cardinality(output_fields)
      matched_count == Cardinality(matched_fields)
      recall == IF total_output_fields > 0
                THEN Float(matched_count, total_output_fields) ELSE Zero
      precision == IF total_gt_fields > 0
                   THEN Float(matched_count, total_gt_fields) ELSE Zero
  IN [recall |-> Round(recall), precision |-> Round(precision),
      f1 |-> Round(F1Score(precision, recall)),
      missing_fields |-> Sorted(gt_fields \ output_fields),
      extra_fields |-> Sorted(output_fields \ gt_fields),
      total_gt_fields |-> total_gt_fields,
      total_output_fields |-> total_output_fields,
      matched_fields |-> matched_count]

CalculateMetrics(output, ground_truth) ==
  LET output_fields == GetAllFields(output, <<>>)
      gt_fields == GetAllFields(ground_truth, <<>>)
      matched_fields == output_fields \cap gt_fields
      total_gt_fields == Cardinality(gt_fields)
      total_output_fields == Cardinality(output_fields)
      matched_count == Cardinality(matched_fields)
      recall == IF total_gt_fields > 0
                THEN Float(matched_count, total_gt_fields) ELSE Zero
      precision == IF total_output_fields > 0
                   THEN Float(matched_count, total_output_fields) ELSE Zero
  IN [recall |-> Round(recall), precision |-> Round(precision),
      f1 |-> Round(F1Score(precision, recall)),
      missing_fields |-> Sorted(gt_fields \ output_fields),
      extra_fields |-> Sorted(output_fields \ gt_fields),
      total_gt_fields |-> total_gt_fields,
      total_output_fields |-> total_output_fields,
      matched_fields |-> matched_count]

\* ---- calculate_metrics called on drawn mappings ------------------------------
\* keys that are one name up to letter case and outer whitespace, and one
\* other name
FieldNames == {<<"a">>, <<" ", "A", " ">>, <<"b">>}

\* the number of keys of a nested mapping, all levels counted
RECURSIVE Size(_)
RECURSIVE SumSizes(_, _)
SumSizes(data, keys) ==
  IF keys = {} THEN 0
  ELSE LET key == CHOOSE k \in keys : TRUE
       IN 1 + (IF data[key].isdict THEN Size(data[key].items) ELSE 0)
            + SumSizes(data, keys \ {key})
Size(data) == SumSizes(data, DOMAIN data)

\* the nested mappings with keys among the given ones, at most n keys in
\* all, and every scalar equal to v
RECURSIVE Mappings(_, _, _)
Mappings(keys, n, v) ==
  IF n = 0 \/ keys = {} THEN {EmptyDir}
  ELSE LET key == CHOOSE k \in keys : TRUE
           rest == keys \ {key}
       IN Mappings(rest, n, v)
          \cup {(key :> Scalar(v)) @@ d : d \in Mappings(rest, n - 1, v)}
          \cup UNION {{(key :> Nested(sub)) @@ d :
                          d \in Mappings(rest, n - 1 - Size(sub), v)} :
                      sub \in Mappings(FieldNames, n - 1, v) \ {EmptyDir}}

Outputs == Mappings(FieldNames, MaxFields, 1)
GroundTruths == Mappings(FieldNames, MaxFields, 0)

\* the key sequences that lead to a key of the mapping
RECURSIVE KeyPaths(_)
KeyPaths(data) ==
  UNION {{<<key>>} \cup
         (IF data[key].isdict
          THEN {<<key>> \o p : p \in KeyPaths(data[key].items)}
          ELSE {})
        : key \in DOMAIN data}

\* the mapping without the key that path leads to
RECURSIVE RemoveField(_, _)
RemoveField(data, path) ==
  IF Len(path) = 1
  THEN [key \in DOMAIN data \ {path[1]} |-> data[key]]
  ELSE [data EXCEPT ![path[1]] = Nested(RemoveField(@.items, Tail(path)))]

MetricsInit ==
  /\ Started
  /\ \E output \in Outputs :
       \E ground_truth \in GroundTruths \cup {output} :
         call = [fn |-> "calculate_metrics", output |-> output,
                 ground_truth |-> ground_truth, previous |-> <<>>,
                 returned |-> <<>>]

\* metrics = calculate_metrics(output, ground_truth)
CalculateMetricsCall ==
  /\ call.fn = "calculate_metrics"
  /\ call.returned = <<>>
  /\ call' = [call EXCEPT
                !.returned = <<CalculateMetrics(call.output,
                                                call.ground_truth)>>]
  /\ UNCHANGED <<now, nextId, storeVars, cache, tasks, response, execVars>>

\* a field is taken out of the ground truth and the same output is scored
\* again; previous keeps what the call before returned
RescoreWithout(path) ==
  /\ call.fn = "calculate_metrics"
  /\ call.returned # <<>>
  /\ call.previous = <<>>
  /\ path \in KeyPaths(call.ground_truth)
  /\ LET ground_truth == RemoveField(call.ground_truth, path)
     IN call' = [call EXCEPT
                   !.ground_truth = ground_truth,
                   !.previous = call.returned,
                   !.returned = <<CalculateMetrics(call.output,
                                                   ground_truth)>>]
  /\ UNCHANGED <<now, nextId, storeVars, cache, tasks, response, execVars>>

MetricsNext ==
  \/ CalculateMetricsCall
  \/ \E path \in UNION {KeyPaths(g) : g \in GroundTruths \cup Outputs} :
       RescoreWithout(path)

SpecMetrics == MetricsInit /\ [][MetricsNext]_vars

\* ---- properties of calculate_metrics -----------------------------------------
\* calculate_metrics has returned
Scored == call.fn = "calculate_metrics" /\ call.returned # <<>>

\* what it returned
Metrics == call.returned[1]

Perfect(m) ==
  /\ m.recall = One
  /\ m.precision = One
  /\ m.f1 = One
  /\ m.missing_fields = <<>>
  /\ m.extra_fields = <<>>

\* C16 as stated: for any nested mapping D, calculate_metrics(D, D) yields
\* recall = precision = f1 = 1.0 and missing_fields = extra_fields = [].
C16_RoundTrip ==
  Scored /\ call.output = call.ground_truth => Perfect(Metrics)

\* C16: for any nested mapping D with at least one key,
\* calculate_metrics(D, D) yields recall = precision = f1 = 1.0 and
\* missing_fields = extra_fields = []; for the empty mapping the three
\* scores are 0.0.
C16_RoundTripNonEmpty ==
  Scored /\ call.output = call.ground_truth =>
    IF DOMAIN call.output # {} THEN Perfect(Metrics)
    ELSE /\ Metrics.recall = 0
         /\ Metrics.precision = 0
         /\ Metrics.f1 = 0
         /\ Metrics.missing_fields = <<>>
         /\ Metrics.extra_fields = <<>>

C16_Witness ==
  /\ Scored
  /\ call.previous = <<>>
  /\ call.output = call.ground_truth
  /\ \E key \in DOMAIN call.output : call.output[key].isdict
  /\ Metrics.total_gt_fields = MaxFields
  /\ Perfect(Metrics)

\* the output was scored, a field was removed from the ground truth and
\* the output was scored again
Rescored == Scored /\ call.previous # <<>>

RECURSIVE Join(_)
Join(path) ==
  IF Len(path) = 1 THEN path[1] ELSE path[1] \o <<".">> \o Join(Tail(path))

\* the paths of a mapping with every field name in lower case and without
\* outer whitespace
NamePaths(data) ==
  {Join([i \in 1..Len(path) |-> NormalizeFieldName(path[i])]) :
     path \in KeyPaths(data)}

\* C18: field names that differ only in letter case or in leading or
\* trailing whitespace are the same field, for keys at any nesting depth:
\* two mappings with the same fields up to that have no missing and no
\* extra field and every field matched.
C18_CaseAndWhitespaceInvariant ==
  Scored /\ NamePaths(call.output) = NamePaths(call.ground_truth) =>
    /\ Metrics.missing_fields = <<>>
    /\ Metrics.extra_fields = <<>>
    /\ Metrics.matched_fields = Metrics.total_gt_fields
    /\ Metrics.matched_fields = Metrics.total_output_fields

\* the normalized field paths of a mapping
NormalizedPaths(data) ==
  {NormalizeFieldName(Join(path)) : path \in KeyPaths(data)}

\* list holds the strings of fields, each once, in ascending order
IsSortedListOf(list, fields) ==
  /\ {list[i] : i \in 1..Len(list)} = fields
  /\ \A i, j \in 1..Len(list) : i < j => StrLess(list[i], list[j])

\* C19: with O and G the normalized field-path sets of output and ground
\* truth, matched_fields = |O \cap G|, total_output_fields = |O|,
\* total_gt_fields = |G|, missing_fields is G \ O sorted, extra_fields is
\* O \ G sorted, recall = matched/|G| or 0.0 when G is empty, precision =
\* matched/|O| or 0.0 when O is empty, and f1 is 0.0 when both are 0.0.
C19_SetDefinition ==
  Scored =>
    LET O == NormalizedPaths(call.output)
        G == NormalizedPaths(call.ground_truth)
        matched == Cardinality(O \cap G)
    IN /\ Metrics.matched_fields = matched
       /\ Metrics.total_output_fields = Cardinality(O)
       /\ Metrics.total_gt_fields = Cardinality(G)
       /\ IsSortedListOf(Metrics.missing_fields, G \ O)
       /\ IsSortedListOf(Metrics.extra_fields, O \ G)
       /\ Metrics.recall = IF G = {} THEN 0
                           ELSE Round(Float(matched, Cardinality(G)))
       /\ Metrics.precision = IF O = {} THEN 0
                              ELSE Round(Float(matched, Cardinality(O)))
       /\ (matched = 0 => Metrics.f1 = 0)

C19_Witness ==
  /\ Scored
  /\ DOMAIN call.ground_truth = {}
  /\ Len(Metrics.extra_fields) = MaxFields
  /\ Metrics.recall = 0
  /\ Metrics.precision = 0
  /\ Metrics.f1 = 0

\* ---- mvp/services/metrics.py: calculate_cost --------------------------------
\* MODEL_PRICING in the order of the table; the prices per 1K tokens are in
\* millionths of a dollar
MODEL_PRICING == <<
  \* "gpt-4": {"input": 0.03, "output": 0.06}
  [model |-> <<"g", "p", "t", "-", "4">>,
   input |-> 30000, output |-> 60000],
  \* "gpt-4-turbo": {"input": 0.01, "output": 0.03}
  [model |-> <<"g", "p", "t", "-", "4", "-", "t", "u", "r", "b", "o">>,
   input |-> 10000, output |-> 30000],
  \* "gpt-4-turbo-preview": {"input": 0.01, "output": 0.03}
  [model |-> <<"g", "p", "t", "-", "4", "-", "t", "u", "r", "b", "o", "-", "p", "r", "e", "v", "i", "e", "w">>,
   input |-> 10000, output |-> 30000],
  \* "gpt-4o": {"input": 0.005, "output": 0.015}
  [model |-> <<"g", "p", "t", "-", "4", "o">>,
   input |-> 5000, output |-> 15000],
  \* "gpt-4o-mini": {"input": 0.00015, "output": 0.0006}
  [model |-> <<"g", "p", "t", "-", "4", "o", "-", "m", "i", "n", "i">>,
   input |-> 150, output |-> 600],
  \* "gpt-3.5-turbo": {"input": 0.0005, "output": 0.0015}
  [model |-> <<"g", "p", "t", "-", "3", ".", "5", "-", "t", "u", "r", "b", "o">>,
   input |-> 500, output |-> 1500],
  \* "gpt-3.5-turbo-0125": {"input": 0.0005, "output": 0.0015}
  [model |-> <<"g", "p", "t", "-", "3", ".", "5", "-", "t", "u", "r", "b", "o", "-", "0", "1", "2", "5">>,
   input |-> 500, output |-> 1500],
  \* "claude-3-opus": {"input": 0.015, "output": 0.075}
  [model |-> <<"c", "l", "a", "u", "d", "e", "-", "3", "-", "o", "p", "u", "s">>,
   input |-> 15000, output |-> 75000],
  \* "claude-3-opus-20240229": {"input": 0.015, "output": 0.075}
  [model |-> <<"c", "l", "a", "u", "d", "e", "-", "3", "-", "o", "p", "u", "s", "-", "2", "0", "2", "4", "0", "2", "2", "9">>,
   input |-> 15000, output |-> 75000],
  \* "claude-3-sonnet": {"input": 0.003, "output": 0.015}
  [model |-> <<"c", "l", "a", "u", "d", "e", "-", "3", "-", "s", "o", "n", "n", "e", "t">>,
   input |-> 3000, output |-> 15000],
  \* "claude-3-sonnet-20240229": {"input": 0.003, "output": 0.015}
  [model |-> <<"c", "l", "a", "u", "d", "e", "-", "3", "-", "s", "o", "n", "n", "e", "t", "-", "2", "0", "2", "4", "0", "2", "2", "9">>,
   input |-> 3000, output |-> 15000],
  \* "claude-3-haiku": {"input": 0.00025, "output": 0.00125}
  [model |-> <<"c", "l", "a", "u", "d", "e", "-", "3", "-", "h", "a", "i", "k", "u">>,
   input |-> 250, output |-> 1250],
  \* "claude-3-haiku-20240307": {"input": 0.00025, "output": 0.00125}
  [model |-> <<"c", "l", "a", "u", "d", "e", "-", "3", "-", "h", "a", "i", "k", "u", "-", "2", "0", "2", "4", "0", "3", "0", "7">>,
   input |-> 250, output |-> 1250],
  \* "text-davinci-003": {"input": 0.02, "output": 0.02}
  [model |-> <<"t", "e", "x", "t", "-", "d", "a", "v", "i", "n", "c", "i", "-", "0", "0", "3">>,
   input |-> 20000, output |-> 20000]
>>

\* the price of the table in dollars
Dollars(millionths) == Float(millionths, 1000000)

\* s.startswith(prefix)
StartsWith(s, prefix) ==
  Len(prefix) <= Len(s) /\ SubSeq(s, 1, Len(prefix)) = prefix

\* sub in s
Contains(s, sub) ==
  \E i \in 1..(Len(s) - Len(sub) + 1) : SubSeq(s, i, i + Len(sub) - 1) = sub

\* MODEL_PRICING.get(model_id): the position of the key, 0 for None
PricingGet(model_id) ==
  IF \E i \in 1..Len(MODEL_PRICING) : MODEL_PRICING[i].model = model_id
  THEN CHOOSE i \in 1..Len(MODEL_PRICING) : MODEL_PRICING[i].model = model_id
  ELSE 0

\* the loop over the table without its break: the last match stays
RECURSIVE PartialMatchLast(_, _)
PartialMatchLast(model_id, i) ==
  IF i > Len(MODEL_PRICING) THEN 0
  ELSE LET later == PartialMatchLast(model_id, i + 1)
       IN IF later # 0 THEN later
          ELSE IF \/ StartsWith(model_id, MODEL_PRICING[i].model)
                  \/ Contains(model_id, MODEL_PRICING[i].model)
          THEN i ELSE 0

\* the loop over the table from position i, left at the first match
RECURSIVE PartialMatch(_, _)
PartialMatch(model_id, i) ==
  IF i > Len(MODEL_PRICING) THEN 0
  ELSE IF \/ StartsWith(model_id, MODEL_PRICING[i].model)
          \/ Contains(model_id, MODEL_PRICING[i].model)
  THEN i
  ELSE PartialMatch(model_id, i + 1)

\* round((input / 1000) * price + (output / 1000) * price, 6), in
\* millionths
TotalCost(tokens, pricing) ==
  LET input_cost == Times(Float(tokens.input, 1000), Dollars(pricing.input))
      output_cost ==
        Times(Float(tokens.output, 1000), Dollars(pricing.output))
  IN Round(Plus(input_cost, output_cost))

CalculateCost(tokens, model_id) ==
  LET exact == PricingGet(model_id)
      pricing == IF exact # 0 THEN exact ELSE PartialMatch(model_id, 1)
  IN IF pricing = 0 THEN 0 ELSE TotalCost(tokens, MODEL_PRICING[pricing])

\* ---- calculate_cost called on drawn model ids and token counts ----------
\* the keys of the table, ids that extend or wrap a key, ids that no key
\* matches
ModelIds ==
  {MODEL_PRICING[i].model : i \in 1..Len(MODEL_PRICING)} \cup
  {
   \* "gpt-4-0613"
   <<"g", "p", "t", "-", "4", "-", "0", "6", "1", "3">>,
   \* "gpt-4o-2024-05-13"
   <<"g", "p", "t", "-", "4", "o", "-", "2", "0", "2", "4", "-", "0", "5", "-", "1", "3">>,
   \* "openai/gpt-4o-mini"
   <<"o", "p", "e", "n", "a", "i", "/", "g", "p", "t", "-", "4", "o", "-", "m", "i", "n", "i">>,
   \* "claude-3-5-sonnet"
   <<"c", "l", "a", "u", "d", "e", "-", "3", "-", "5", "-", "s", "o", "n", "n", "e", "t">>,
   \* "unknown-model-v1"
   <<"u", "n", "k", "n", "o", "w", "n", "-", "m", "o", "d", "e", "l", "-", "v", "1">>,
   \* ""
   <<>>
  }

\* token counts with costs that are whole millionths
TokenCounts == {0, 500, 2000}

CostInit ==
  /\ Started
  /\ \E model_id \in ModelIds, input \in TokenCounts, output \in TokenCounts :
       call = [fn |-> "calculate_cost",
               tokens |-> [input |-> input, output |-> output],
               model_id |-> model_id, returned |-> <<>>]

\* cost = calculate_cost(tokens, model_config)
CalculateCostCall ==
  /\ call.fn = "calculate_cost"
  /\ call.returned = <<>>
  /\ call' = [call EXCEPT
                !.returned = <<CalculateCost(call.tokens, call.model_id)>>]
  /\ UNCHANGED <<now, nextId, storeVars, cache, tasks, response, execVars>>

CostNext == CalculateCostCall

SpecCost == CostInit /\ [][CostNext]_vars

\* calculate_cost has returned
Priced == call.fn = "calculate_cost" /\ call.returned # <<>>

\* the table key at position i is a prefix or a substring of the model id
KeyMatches(i, model_id) ==
  LET key == MODEL_PRICING[i].model
  IN \/ /\ Len(key) <= Len(model_id)
        /\ \A k \in 1..Len(key) : model_id[k] = key[k]
     \/ \E at \in 0..(Len(model_id) - Len(key)) :
          \A k \in 1..Len(key) : model_id[at + k] = key[k]

\* C20: calculate_cost prices a model by the table entry whose key is the
\* model id when there is one; otherwise by the first entry, in table
\* order, whose key is a prefix or substring of the model id; and returns
\* 0.0 when no key matches.
C20_PricingLookup ==
  Priced =>
    LET rows == 1..Len(MODEL_PRICING)
        cost == call.returned[1]
    IN IF \E i \in rows : MODEL_PRICING[i].model = call.model_id
       THEN \E i \in rows :
              /\ MODEL_PRICING[i].model = call.model_id
              /\ cost = TotalCost(call.tokens, MODEL_PRICING[i])
       ELSE IF \E i \in rows : KeyMatches(i, call.model_id)
       THEN \E i \in rows :
              /\ KeyMatches(i, call.model_id)
              /\ \A j \in 1..(i - 1) : ~KeyMatches(j, call.model_id)
              /\ cost = TotalCost(call.tokens, MODEL_PRICING[i])
       ELSE cost = 0

C20_Witness ==
  /\ Priced
  /\ \A i \in 1..Len(MODEL_PRICING) : MODEL_PRICING[i].model # call.model_id
  /\ \E i, j \in 1..Len(MODEL_PRICING) :
       /\ i < j
       /\ KeyMatches(i, call.model_id)
       /\ KeyMatches(j, call.model_id)
       /\ \A k \in 1..(i - 1) : ~KeyMatches(k, call.model_id)
       /\ call.returned[1] = TotalCost(call.tokens, MODEL_PRICING[i])
       /\ call.returned[1] # TotalCost(call.tokens, MODEL_PRICING[j])

\* ---- mvp/services/executor.py: build_model_params ---------------------------
\* A value of the params dict carries its type: a number, a string or a
\* dict.  Temperatures are in tenths.
Num(n) == <<"num", n>>
Str(s) == <<"str", s>>
Dict(d) == <<"dict", d>>

\* reasoning_effort = None, max_tokens = None
NoEffort == "None"
NoMaxTokens == <<"none", 0>>

\* params.setdefault for every key of other: the keys already there stay
UpdateMissing(params, other) ==
  [key \in DOMAIN params \cup DOMAIN other |->
     IF key \in DOMAIN params THEN params[key] ELSE other[key]]

\* params.update(other)
Update(params, other) ==
  [key \in DOMAIN params \cup DOMAIN other |->
     IF key \in DOMAIN other THEN other[key] ELSE params[key]]

\* params[key] = value
SetItem(params, key, value) == Update(params, [k \in {key} |-> value])

\* reasoning_effort passed on for every openai model
BuildModelParamsAnyModel(config) ==
  LET base == [key \in {"model", "temperature"} |->
                 IF key = "model" THEN Str(config.model_id)
                 ELSE Num(config.temperature)]
      params == IF config.max_tokens # NoMaxTokens
                THEN SetItem(base, "max_tokens", config.max_tokens)
                ELSE base
  IN IF config.provider = "openai"
     THEN Update(IF config.reasoning_effort # NoEffort
                 THEN SetItem(params, "reasoning_effort",
                              Str(config.reasoning_effort))
                 ELSE params,
                 config.extra_params)
     ELSE IF config.provider = "anthropic"
     THEN Update(IF config.reasoning_effort # NoEffort
                 THEN SetItem(params, "extra_headers",
                              Dict([k \in {"anthropic-reasoning-effort"} |->
                                      config.reasoning_effort]))
                 ELSE params,
                 config.extra_params)
     ELSE IF config.provider = "openrouter"
     THEN Update(IF config.reasoning_effort # NoEffort
                 THEN SetItem(params, "reasoning",
                              Dict([k \in {"effort"} |->
                                      config.reasoning_effort]))
                 ELSE params,
                 config.extra_params)
     ELSE params

BuildModelParams(config) ==
  LET base == [key \in {"model", "temperature"} |->
                 IF key = "model" THEN Str(config.model_id)
                 ELSE Num(config.temperature)]
      params == IF config.max_tokens # NoMaxTokens
                THEN SetItem(base, "max_tokens", config.max_tokens)
                ELSE base
  IN IF config.provider = "openai"
     THEN Update(IF /\ config.reasoning_effort # NoEffort
                    /\ StartsWith(config.model_id, <<"o", "1">>)
                 THEN SetItem(params, "reasoning_effort",
                              Str(config.reasoning_effort))
                 ELSE params,
                 config.extra_params)
     ELSE IF config.provider = "anthropic"
     THEN Update(IF config.reasoning_effort # NoEffort
                 THEN SetItem(params, "extra_headers",
                              Dict([k \in {"anthropic-reasoning-effort"} |->
                                      config.reasoning_effort]))
                 ELSE params,
                 config.extra_params)
     ELSE IF config.provider = "openrouter"
     THEN Update(IF config.reasoning_effort # NoEffort
                 THEN SetItem(params, "reasoning",
                              Dict([k \in {"effort"} |->
                                      config.reasoning_effort]))
                 ELSE params,
                 config.extra_params)
     ELSE params

\* ---- build_model_params called on drawn configs ------------------------------
Providers == {"openai", "anthropic", "openrouter"}

\* "o1", "o1-mini", "gpt-4", "claude-3-opus"
ParamModelIds ==
  {<<"o", "1">>, <<"o", "1", "-", "m", "i", "n", "i">>,
   <<"g", "p", "t", "-", "4">>,
   <<"c", "l", "a", "u", "d", "e", "-", "3", "-", "o", "p", "u", "s">>}

Efforts == {"low", "medium", "high"}

\* extra_params: any of these entries; three of them have the name of a
\* computed key
ExtraEntries ==
  [temperature |-> Num(1), reasoning_effort |-> Str("custom"),
   max_tokens |-> Num(16), custom |-> Str("value")]

ExtraParams ==
  {[key \in keys |-> ExtraEntries[key]] : keys \in SUBSET DOMAIN ExtraEntries}

ParamsInit ==
  /\ Started
  /\ \E provider \in Providers, model_id \in ParamModelIds,
        reasoning_effort \in Efforts \cup {NoEffort},
        max_tokens \in {NoMaxTokens, Num(2048)},
        extra_params \in ExtraParams :
       call = [fn |-> "build_model_params",
               config |-> [provider |-> provider, model_id |-> model_id,
                           reasoning_effort |-> reasoning_effort,
                           temperature |-> 7, max_tokens |-> max_tokens,
                           extra_params |-> extra_params],
               returned |-> <<>>]

\* params = build_model_params(config)
BuildModelParamsCall ==
  /\ call.fn = "build_model_params"
  /\ call.returned = <<>>
  /\ call' = [call EXCEPT !.returned = <<BuildModelParams(call.config)>>]
  /\ UNCHANGED <<now, nextId, storeVars, cache, tasks, response, execVars>>

ParamsNext == BuildModelParamsCall

SpecParams == ParamsInit /\ [][ParamsNext]_vars

\* build_model_params has returned
Built == call.fn = "build_model_params" /\ call.returned # <<>>

\* C21: for every provider, every key of config.extra_params is in the
\* result with the value from extra_params, whatever was computed for a
\* key of that name, temperature included.
C21_ExtraParamsLast ==
  Built =>
    \A key \in DOMAIN call.config.extra_params :
      /\ key \in DOMAIN call.returned[1]
      /\ call.returned[1][key] = call.config.extra_params[key]

C21_Witness ==
  /\ Built
  /\ call.config.provider = "openai"
  /\ call.config.reasoning_effort = "high"
  /\ call.config.model_id = <<"o", "1">>
  /\ DOMAIN call.config.extra_params = DOMAIN ExtraEntries
  /\ call.returned[1]["temperature"] = Num(1)
  /\ call.returned[1]["reasoning_effort"] = Str("custom")

\* the model id begins with "o1"
ReasoningFamily(model_id) ==
  Len(model_id) >= 2 /\ model_id[1] = "o" /\ model_id[2] = "1"

\* C22: with empty extra_params, for openai the key reasoning_effort is
\* in the result exactly when reasoning_effort is set and the model id has
\* the prefix "o1"; for anthropic there is no reasoning_effort key and the
\* effort is only in the header anthropic-reasoning-effort; for openrouter
\* the effort is only the nested reasoning.effort.
C22_ReasoningEffortPerProvider ==
  Built /\ DOMAIN call.config.extra_params = {} =>
    LET config == call.config
        params == call.returned[1]
        set == config.reasoning_effort # NoEffort
        computed == {"reasoning_effort", "extra_headers", "reasoning"}
    IN IF config.provider = "openai"
       THEN /\ DOMAIN params \cap computed =
                 IF set /\ ReasoningFamily(config.model_id)
                 THEN {"reasoning_effort"} ELSE {}
            /\ "reasoning_effort" \in DOMAIN params =>
                 params["reasoning_effort"] = Str(config.reasoning_effort)
       ELSE IF config.provider = "anthropic"
       THEN /\ DOMAIN params \cap computed =
                 IF set THEN {"extra_headers"} ELSE {}
            /\ set => params["extra_headers"] =
                        Dict([k \in {"anthropic-reasoning-effort"} |->
                                config.reasoning_effort])
       ELSE /\ DOMAIN params \cap computed =
                 IF set THEN {"reasoning"} ELSE {}
            /\ set => params["reasoning"] =
                        Dict([k \in {"effort"} |-> config.reasoning_effort])

C22_Witness ==
  /\ Built
  /\ DOMAIN call.config.extra_params = {}
  /\ call.config.provider = "openai"
  /\ call.config.reasoning_effort = "medium"
  /\ call.config.model_id = <<"g", "p", "t", "-", "4">>
  /\ "reasoning_effort" \notin DOMAIN call.returned[1]

\* ---- get_cached and set_cached called on a drawn cache -----------------------
CacheKeys == {"k1", "k2"}
CachedValues == {"v1", "v2"}

\* the times to live, in seconds, that set_cached is called with
Ttls == {0, 1}

\* the entries a namespace can hold at the start: set earlier, to expire
\* before, at or after the first reading of the clock
DrawnEntries ==
  [value : CachedValues, expires_at : {0, 1, 2}]

DrawnNamespaces ==
  UNION {[keys -> DrawnEntries] : keys \in SUBSET CacheKeys}

ExpiryInit ==
  /\ now = 1
  /\ nextId = [k \in COLLECTIONS |-> 0]
  /\ promptFiles = EmptyDir
  /\ promptIndex = <<>>
  /\ configFiles = EmptyDir
  /\ configIndex = <<>>
  /\ runFiles = EmptyDir
  /\ runIndex = <<>>
  /\ indexExists = [k \in COLLECTIONS |-> FALSE]
  /\ \E ns \in DrawnNamespaces : cache = [n \in {"default"} |-> ns]
  /\ tasks = {}
  /\ response = NoResponse
  /\ pc = [c \in Calls |-> "idle"]
  /\ args = [c \in Calls |-> NoArgs]
  /\ run = [c \in Calls |-> NoRun]
  /\ result = [c \in Calls |-> "none"]
  /\ saved = [c \in Calls |-> <<>>]
  /\ loads = [c \in Calls |-> NoLoads]
  /\ extraction = [c \in Calls |-> "none"]
  /\ call = NoCall

\* value = await get_cached(key)
GetCachedCall(key) ==
  /\ call' = [fn |-> "get_cached", key |-> key,
              returned |-> GetCached(cache, key, "default")]
  /\ cache' = CacheAfterGet(cache, key, "default")
  /\ UNCHANGED <<now, nextId, storeVars, tasks, response, execVars>>

\* await set_cached(key, value, ttl)
SetCachedCall(key, value, ttl) ==
  /\ call' = [fn |-> "set_cached", key |-> key, returned |-> <<>>]
  /\ cache' = SetCached(cache, key, value, ttl, "default")
  /\ UNCHANGED <<now, nextId, storeVars, tasks, response, execVars>>

ExpiryNext ==
  \/ Tick
  \/ \E key \in CacheKeys : GetCachedCall(key)
  \/ \E key \in CacheKeys, value \in CachedValues, ttl \in Ttls :
       SetCachedCall(key, value, ttl)

SpecExpiry == ExpiryInit /\ [][ExpiryNext]_vars

\* the entry's expiry time has passed
Expired(entry) == Seconds(now) > entry.expires_at

\* C23: get_cached never returns a value whose expiry time has passed: on
\* such a read the entry is removed, the other entries stay and the read
\* is a miss; an unexpired entry is returned and the cache stays as it is;
\* a key without entry is a miss.
C23_LazyExpiry ==
  [][\A key \in CacheKeys :
       GetCachedCall(key) =>
         LET ns == Namespace(cache, "default")
             after == Namespace(cache', "default")
         IN IF key \notin DOMAIN ns
            THEN call'.returned = <<>> /\ after = ns
            ELSE IF Expired(ns[key])
            THEN /\ call'.returned = <<>>
                 /\ DOMAIN after = DOMAIN ns \ {key}
                 /\ \A k \in DOMAIN after : after[k] = ns[k]
            ELSE /\ call'.returned = <<ns[key].value>>
                 /\ after = ns]_vars

C23_Witness ==
  /\ call.fn = "get_cached"
  /\ call.returned = <<>>
  /\ now > 1
  /\ call.key \notin DOMAIN Namespace(cache, "default")
  /\ \E k \in DOMAIN Namespace(cache, "default") :
       Expired(Namespace(cache, "default")[k])

\* ---- several create requests --------------------------------------------------
\* create and list requests only.  Requests that are in flight together are
\* served by one event loop, and a handler is not suspended before its
\* response is ready: the interleavings the server allows are the orders of
\* whole handlers.
CreatesNext ==
  \/ Tick
  \/ \E name \in Names, parent_id \in {NoParent, Hex(1)} :
       CreatePrompt(name, 0, parent_id)
  \/ \E page \in Pages, page_size \in PageSizes : ListPrompts(page, page_size)
  \/ \E name \in Names : CreateConfig(name)
  \/ \E page \in Pages, page_size \in PageSizes : ListConfigs(page, page_size)

SpecCreates == Init /\ [][CreatesNext]_vars

\* the ids of the create requests answered with 201 so far
CreatedPrompts == {Hex(u) : u \in 1..nextId["prompts"]}

\* C24: after any number of create requests that were all answered
\* successfully, in any order of the handlers, the created entities have
\* distinct ids, each created id is in the collection's index once, and a
\* list request answers with all of them: the total counts them and each
\* page shows the entry of the index at that place.
C24_NoCreateLost ==
  [][/\ Cardinality(DOMAIN promptFiles') = nextId'["prompts"]
     /\ IndexIds(promptIndex') = CreatedPrompts'
     /\ Len(promptIndex') = nextId'["prompts"]
     /\ \A page \in Pages, page_size \in PageSizes :
          ListPrompts(page, page_size) =>
            /\ response'.body.total = nextId["prompts"]
            /\ \A i \in 1..Len(response'.body.items) :
                 response'.body.items[i].id \in CreatedPrompts
            /\ page <= nextId["prompts"] =>
                 response'.body.items[1].id = promptIndex[page].id]_vars

C24_Witness ==
  /\ nextId["prompts"] = MaxPrompts
  /\ response.req = "list_prompts"
  /\ response.key[1] = 2
  /\ response.body.total = MaxPrompts
  /\ Cardinality(DOMAIN Namespace(cache, "prompts")) = 1

\* ---- the executor and a client polling the run ----------------------------------
\* the executor called directly, one call after the other, and
\* GET /api/runs/{run_id} at any moment, the extraction included
PollNext ==
  \/ ExecNext
  \/ \E id \in RunIds : PollRun(id)

SpecPoll == Init /\ [][PollNext]_vars

\* C25: when an execution gets to the extraction call, the run record is
\* stored with status running and a started_at read at that moment, and a
\* client that reads the run while the extraction is going on is answered
\* with the run in status running.
C25_RunningObservable ==
  [][\A c \in Calls :
       /\ pc[c] # "extracting" /\ pc'[c] = "extracting" =>
            /\ runFiles'[Dashed(run'[c].id)].status = "running"
            /\ runFiles'[Dashed(run'[c].id)].started_at = now
       /\ pc[c] = "extracting" /\ PollRun(Dashed(run[c].id)) =>
            /\ response'.code = 200
            /\ response'.detail = "running"]_vars

\* C26: every stored run record with status failed has an output that
\* carries the error message, whichever step of execute_run failed.
C26_FailedCarriesError ==
  \A n \in DOMAIN runFiles :
    runFiles[n].status = "failed" => runFiles[n].output = "error"

\* C27: in every stored run record completed_at is absent or not before
\* started_at, after any sequence of run creations and executions.
C27_CompletedNotBeforeStarted ==
  \A n \in DOMAIN runFiles :
    \/ runFiles[n].completed_at = NoTime
    \/ runFiles[n].completed_at >= runFiles[n].started_at

\* the names of the stored records of the run with this id, in either form
StoredAs(run_id) == {n \in DOMAIN runFiles : ParseUuid(n) = ParseUuid(run_id)}

\* C28: execute_run starts from the stored record of the run with the given
\* id when there is one, and from a fresh pending record for that id when
\* there is none; there is never more than one stored record of a run.
C28_IdempotentEntry ==
  [][/\ \A c \in Calls, a \in ExecArgs :
          ExecLoad(c, a) =>
            IF StoredAs(a.run_id) # {}
            THEN \E n \in StoredAs(a.run_id) :
                   run'[c] = ParseRun(runFiles[n])
            ELSE /\ run'[c].id = ParseUuid(a.run_id)
                 /\ run'[c].status = "pending"
     /\ \A u \in RunUuids : Cardinality(StoredAs(Hex(u))') <= 1]_vars

\* ---- executions come to an end ----------------------------------------------
\* the direct calls of the executor, where an extraction call that was
\* started returns or raises: steps 3 to 7 of execute_run are then taken
ExecFairness == WF_vars(\E c \in Calls, ending \in Endings : ExecFinish(c, ending))

SpecExecFair == Init /\ [][ExecNext]_vars /\ ExecFairness

\* the status of the stored record of the run a call works on
StoredStatus(c) ==
  IF Dashed(run[c].id) \in DOMAIN runFiles
  THEN runFiles[Dashed(run[c].id)].status ELSE "none"

\* C29: an execution that has persisted status running goes on to persist
\* status completed or failed for that run, and a stored record has status
\* running only while an execution of that run is at its extraction call.
C29_RunningEnds ==
  /\ \A c \in Calls :
       (pc[c] = "extracting" /\ StoredStatus(c) = "running")
         ~> (pc[c] = "done" /\ StoredStatus(c) \in Terminal)
  /\ [](\A n \in DOMAIN runFiles :
          runFiles[n].status = "running" =>
            \E c \in Calls : pc[c] = "extracting" /\ Dashed(run[c].id) = n)

C29_Witness ==
  \E c \in Calls :
    /\ pc[c] = "done"
    /\ extraction[c] \in Endings
    /\ Len(saved[c]) >= 2
    /\ saved[c][Len(saved[c]) - 1] = "running"
    /\ StoredStatus(c) \in Terminal

\* ---- a run deleted while it is executed ---------------------------------------
\* DELETE /api/runs/{id} next to executions of stored runs: an execution
\* starts only on a run whose record is stored, so every execution that is
\* under way after a delete of its run was started before that delete
DeleteNext ==
  \/ Tick
  \/ nextId["prompts"] = 0 /\ SeedPrompt(1)
  \/ nextId["configs"] = 0 /\ SeedConfig(1)
  \/ ServiceCreateRun(Hex(1), Hex(1))
  \/ \E c \in Calls, u \in RunUuids :
       /\ Dashed(u) \in DOMAIN runFiles
       /\ ExecLoad(c, [run_id |-> Dashed(u), prompt_id |-> Hex(1),
                       config_id |-> Hex(1)])
  \/ \E c \in Calls, fail \in (0..4) \X Outcomes : ExecResolve(c, fail)
  \/ \E c \in Calls, ending \in Endings : ExecFinish(c, ending)
  \/ \E id \in RunIds : DeleteRun(id)
  \/ \E id \in RunIds : PollRun(id)

SpecDelete == Init /\ [][DeleteNext]_vars

\* C30: once DELETE /api/runs/{id} has answered 204, no record of that run
\* is in storage, also when an execution of the run was under way at the
\* time of the delete.
C30_DeletedStaysDeleted ==
  response.req = "delete_run" /\ response.code = 204 =>
    StoredAs(response.id) = {}

====
